---- MODULE Spec2Model ----
(***************************************************************************)
(* Book-to-audiobook conversion pipeline of the Electron host process     *)
(* (src/Frontend/vite.config.ts): the job registry `activeJobs`, the IPC  *)
(* handlers process-book-complete and get-processing-status, and the      *)
(* background task that drives one job through its stages.                *)
(***************************************************************************)
EXTENDS Integers, Sequences, FiniteSets, TLC

(* ------------------------------ bounds -------------------------------- *)

\* number of submissions that may be accepted (background tasks)
MaxJobs == 2
\* largest chunk count of a book in the concurrent specification
MaxChunks == 2
\* largest chunk count of a book in the single-job specification
MaxLongChunks == 30
\* Date.now() returns values in 0..MaxTime
MaxTime == 1
\* status polls whose answer the renderer has not yet received
MaxInflight == 2
\* longest process output given to sanitizeCliOutput on its own
MaxOutput == 4
\* longest text given to splitTextIntoChunks on its own
MaxText == 8
\* largest maxChars given to splitTextIntoChunks
MaxBound == 5

\* the characters of the name of an entry of the samples directory
MaxName == 3

\* speechSpeed values, in tenths, run from -MaxSpeed to MaxSpeed
MaxSpeed == 20

\* the fragments of a splice, and the payload bytes of a fragment
MaxFragments == 3
MaxPayload == 3

\* the slider's 1.0 and the default speechSpeed 0.7, in tenths
SliderMax == 10
DefaultSpeechSpeed == 7

Tasks == 1..MaxJobs

(* ------------------------------ inputs -------------------------------- *)

\* A string is a sequence of one-character strings.
NoString == << >>

PdfName == <<"a", ".", "p", "d", "f">>
TxtName == <<"a", ".", "T", "X", "T">>
DocName == <<"a", ".", "d", "o", "c">>
FileNames == {PdfName, TxtName, DocName, NoString}

TitleSpace == <<"A", " ">>
TitleUnder == <<"A", "_">>
Titles == {TitleSpace, TitleUnder, NoString}

BookPaths == {<<"r">>, NoString}

\* bookData.voiceCloning: undefined, or an options object
VoiceCloningOpts == {"undefined", "enabled"}

\* the fields of bookData that process-book-complete reads
AllBookData ==
  [name : FileNames, pdfData : BOOLEAN, title : Titles, author : BOOLEAN,
   bookPath : BookPaths, voiceCloning : VoiceCloningOpts]

Defects(b) ==
  (IF b.name = NoString THEN 1 ELSE 0) + (IF b.pdfData THEN 0 ELSE 1)
  + (IF b.title = NoString THEN 1 ELSE 0) + (IF b.author THEN 0 ELSE 1)
  + (IF b.bookPath = NoString THEN 1 ELSE 0)

\* the accepted submissions
ValidBookData == {b \in AllBookData : Defects(b) = 0 /\ b.name # DocName}

\* the submissions: the accepted ones, and one of them with a single field
\* missing or with the name of a file of another type
BookData ==
  ValidBookData \cup
  {b \in AllBookData : /\ Defects(b) + (IF b.name = DocName THEN 1 ELSE 0) = 1
                       /\ b.name \in {PdfName, DocName, NoString}
                       /\ b.title \in {TitleSpace, NoString}
                       /\ b.voiceCloning = "undefined"}

\* exit codes, written as String(code) writes them (0xC0000005 exceeds the
\* checker's integers); "3221225477" is the access violation
AccessViolation == "3221225477"
ExitCodes == {"0", "1", AccessViolation}

\* Process output is a text whose characters are abstracted to what
\* sanitizeCliOutput can tell apart: "W" stands for a substring one of the
\* benign patterns matches (FutureWarning, UserWarning, deprecated, ...), "x"
\* for any other visible character; "\n", "\r" and " " are themselves.
NoiseChar == "W"
WhiteSpace == {" ", "\n", "\r"}
\* what a child may have written to stderr when it ends
Stderrs == {<< >>, <<"W">>, <<"W", "\n", "x">>}
\* how a spawned child ends: the 'error' event, or 'close' with an exit code
\* and the stderr collected so far
Outcomes ==
  {<<"error">>, <<"close", "0", << >> >>}
    \cup {<<"close", c, e>> : c \in ExitCodes \ {"0"}, e \in Stderrs}
\* children that write nothing to stderr and exit with 0 or 1
QuietOutcomes == {<<"close", "0", << >> >>, <<"close", "1", << >> >>}

(* --------------------------- pure functions --------------------------- *)

UpperCase == {"A", "B", "D", "F", "P", "T", "X"}

toLowerCase(c) ==
  CASE c = "A" -> "a" [] c = "B" -> "b" [] c = "D" -> "d" [] c = "F" -> "f"
    [] c = "P" -> "p" [] c = "T" -> "t" [] c = "X" -> "x" [] OTHER -> c

\* fileName.toLowerCase().split('.').pop()
RECURSIVE LastSegment(_)
LastSegment(s) ==
  IF s = << >> THEN << >>
  ELSE IF s[Len(s)] = "." THEN << >>
  ELSE Append(LastSegment(SubSeq(s, 1, Len(s) - 1)), s[Len(s)])

fileExt(fileName) == LastSegment([k \in 1..Len(fileName) |-> toLowerCase(fileName[k])])

isPdf(fileName) == fileExt(fileName) = <<"p", "d", "f">>
isTxt(fileName) == fileExt(fileName) = <<"t", "x", "t">>

\* the characters the regular expression [a-z0-9-_] (flag i) keeps
SafeChars == {"a", "b", "d", "f", "p", "t", "x", "A", "B", "D", "F", "P", "T", "X", "-", "_"}

\* title.replace(/[^a-z0-9-_]/gi, '_')
dirName(title) == [k \in 1..Len(title) |-> IF title[k] \in SafeChars THEN title[k] ELSE "_"]

\* path.join(bookPath, dirName)
outputDir(bookPath, title) == <<bookPath, dirName(title)>>

\* `${fileName}_${Date.now()}`
JobIdOf(fileName, time) == <<fileName, time>>

JobIds == {JobIdOf(f, n) : f \in {PdfName, TxtName}, n \in 0..MaxTime}

\* 30 + Math.floor((i / Math.max(1, totalChunks)) * 30)
Max(a, b) == IF a >= b THEN a ELSE b
Range(seq) == {seq[k] : k \in DOMAIN seq}

\* text.split(/\r?\n/): `line` is the line being read, in reverse
RECURSIVE SplitLinesFrom(_, _)
SplitLinesFrom(text, line) ==
  IF text = << >> THEN <<line>>
  ELSE IF Head(text) = "\n" THEN
    <<IF line # << >> /\ line[Len(line)] = "\r" THEN SubSeq(line, 1, Len(line) - 1) ELSE line>>
      \o SplitLinesFrom(Tail(text), << >>)
  ELSE SplitLinesFrom(Tail(text), Append(line, Head(text)))

SplitLines(text) == SplitLinesFrom(text, << >>)

\* lines.join('\n')
RECURSIVE JoinLines(_)
JoinLines(lines) ==
  IF lines = << >> THEN << >>
  ELSE IF Len(lines) = 1 THEN lines[1]
  ELSE lines[1] \o <<"\n">> \o JoinLines(Tail(lines))

\* String.prototype.trim
RECURSIVE trimStart(_)
trimStart(text) ==
  IF text # << >> /\ Head(text) \in WhiteSpace THEN trimStart(Tail(text)) ELSE text

RECURSIVE trimEnd(_)
trimEnd(text) ==
  IF text # << >> /\ text[Len(text)] \in WhiteSpace
    THEN trimEnd(SubSeq(text, 1, Len(text) - 1)) ELSE text

trim(text) == trimEnd(trimStart(text))

\* the filter of sanitizeCliOutput: the line matches none of the benign patterns
Actionable(line) == NoiseChar \notin Range(line)

\* sanitizeCliOutput(raw)
sanitizeCliOutput(raw) == trim(JoinLines(SelectSeq(SplitLines(raw), Actionable)))

\* [.!?]
Terminal == {".", "!", "?"}

\* text.split(/(?<=[.!?])\s+/): `piece` is the piece being read; a run of
\* white space right after a terminal character ends it
RECURSIVE SplitSentencesFrom(_, _)
SplitSentencesFrom(text, piece) ==
  IF text = << >> THEN <<piece>>
  ELSE IF Head(text) \in WhiteSpace /\ piece # << >> /\ piece[Len(piece)] \in Terminal
    THEN <<piece>> \o SplitSentencesFrom(trimStart(text), << >>)
  ELSE SplitSentencesFrom(Tail(text), Append(piece, Head(text)))

SplitSentences(text) == SplitSentencesFrom(text, << >>)

\* current + (current ? ' ' : '') + s
Joined(current, s) == IF current # << >> THEN current \o <<" ">> \o s ELSE s

\* the for loop of splitTextIntoChunks and the push after it
RECURSIVE ChunkLoop(_, _, _, _)
ChunkLoop(sentences, chunks, current, maxChars) ==
  IF sentences = << >>
    THEN IF trim(current) # << >> THEN Append(chunks, trim(current)) ELSE chunks
  ELSE IF Len(Joined(current, Head(sentences))) > maxChars /\ current # << >>
    THEN ChunkLoop(Tail(sentences), Append(chunks, trim(current)), Head(sentences), maxChars)
  ELSE ChunkLoop(Tail(sentences), chunks, Joined(current, Head(sentences)), maxChars)

\* a loop that starts the next chunk empty
RECURSIVE ChunkLoopDropping(_, _, _, _)
ChunkLoopDropping(sentences, chunks, current, maxChars) ==
  IF sentences = << >>
    THEN IF trim(current) # << >> THEN Append(chunks, trim(current)) ELSE chunks
  ELSE IF Len(Joined(current, Head(sentences))) > maxChars /\ current # << >>
    THEN ChunkLoopDropping(Tail(sentences), Append(chunks, trim(current)), << >>, maxChars)
  ELSE ChunkLoopDropping(Tail(sentences), chunks, Joined(current, Head(sentences)), maxChars)

splitTextIntoChunksDropping(text, maxChars) ==
  LET chunks == ChunkLoopDropping(SplitSentences(text), << >>, << >>, maxChars)
  IN IF chunks # << >> THEN chunks ELSE <<text>>

\* a loop that measures the chunk before the sentence is added
RECURSIVE ChunkLoopLate(_, _, _, _)
ChunkLoopLate(sentences, chunks, current, maxChars) ==
  IF sentences = << >>
    THEN IF trim(current) # << >> THEN Append(chunks, trim(current)) ELSE chunks
  ELSE IF Len(current) > maxChars /\ current # << >>
    THEN ChunkLoopLate(Tail(sentences), Append(chunks, trim(current)), Head(sentences), maxChars)
  ELSE ChunkLoopLate(Tail(sentences), chunks, Joined(current, Head(sentences)), maxChars)

splitTextIntoChunksLate(text, maxChars) ==
  LET chunks == ChunkLoopLate(SplitSentences(text), << >>, << >>, maxChars)
  IN IF chunks # << >> THEN chunks ELSE <<text>>

\* a loop that closes the chunk as soon as the bound is reached
RECURSIVE ChunkLoopEager(_, _, _, _)
ChunkLoopEager(sentences, chunks, current, maxChars) ==
  IF sentences = << >>
    THEN IF trim(current) # << >> THEN Append(chunks, trim(current)) ELSE chunks
  ELSE IF Len(Joined(current, Head(sentences))) >= maxChars /\ current # << >>
    THEN ChunkLoopEager(Tail(sentences), Append(chunks, trim(current)), Head(sentences), maxChars)
  ELSE ChunkLoopEager(Tail(sentences), chunks, Joined(current, Head(sentences)), maxChars)

splitTextIntoChunksEager(text, maxChars) ==
  LET chunks == ChunkLoopEager(SplitSentences(text), << >>, << >>, maxChars)
  IN IF chunks # << >> THEN chunks ELSE <<text>>

\* a chunker that returns the chunks it collected, without the [text] fallback
splitTextIntoChunksNoFallback(text, maxChars) ==
  ChunkLoop(SplitSentences(text), << >>, << >>, maxChars)

\* splitTextIntoChunks(text, maxChars)
splitTextIntoChunks(text, maxChars) ==
  LET chunks == ChunkLoop(SplitSentences(text), << >>, << >>, maxChars)
  IN IF chunks # << >> THEN chunks ELSE <<text>>
\* a progress that counts the chunk being synthesised as done
ChunkProgressDone(i, totalChunks) == 30 + (((i + 1) * 30) \div Max(1, totalChunks))

\* 30 + Math.floor(((i) / Math.max(1, totalChunks)) * 30)
ChunkProgress(i, totalChunks) == 30 + ((i * 30) \div Max(1, totalChunks))

(* ------------------------- voice sample lookup ------------------------ *)
\* s.startsWith(prefix)
startsWith(s, prefix) == Len(prefix) <= Len(s) /\ SubSeq(s, 1, Len(prefix)) = prefix

\* path.parse(name).name for the name of a directory entry: the name without
\* its extension, which starts at the last dot unless that dot is the first
\* character or the name is '..'
parseName(name) ==
  LET dots == {k \in DOMAIN name : name[k] = "."}
      startDot == CHOOSE k \in dots : \A m \in dots : m <= k
  IN IF dots = {} \/ startDot = 1 \/ name = <<".", ".">> THEN name
     ELSE SubSeq(name, 1, startDot - 1)

\* promptPath stays undefined
NotFound == << >>

\* a lookup that takes directories and other non-files too
RECURSIVE resolveAnyEntry(_, _)
resolveAnyEntry(sampleId, entries) ==
  IF entries = << >> THEN NotFound
  ELSE LET e == Head(entries)
       IN IF parseName(e.name) = sampleId \/ startsWith(e.name, sampleId \o <<"_">>)
            THEN e.name
          ELSE resolveAnyEntry(sampleId, Tail(entries))

\* the loop over the entries of the samples directory (lines 940-947 and
\* 1444-1451): the first file that matches, by its name
RECURSIVE resolve(_, _)
resolve(sampleId, entries) ==
  IF entries = << >> THEN NotFound
  ELSE LET e == Head(entries)
       IN IF e.isFile /\ (parseName(e.name) = sampleId \/ startsWith(e.name, sampleId \o <<"_">>))
            THEN e.name
          ELSE resolve(sampleId, Tail(entries))

(* --------------------------- combineWavs ------------------------------ *)
\* A Buffer is a sequence of bytes, offset o of the code being index o + 1.
\* A number that may not fit the checker's integers (a 32-bit size field, a
\* sum of them) is kept as two 16-bit halves: its value is hi * 65536 + lo.
Big(n) == [hi |-> n \div 65536, lo |-> n % 65536]

\* a + b on such numbers
Plus(a, b) ==
  [hi |-> a.hi + b.hi + ((a.lo + b.lo) \div 65536), lo |-> (a.lo + b.lo) % 65536]

\* buf.readUInt16LE(off) and buf.readUInt32LE(off), within the buffer
readUInt16LE(buf, off) == buf[off + 1] + 256 * buf[off + 2]
readUInt32LE(buf, off) == [hi |-> readUInt16LE(buf, off + 2), lo |-> readUInt16LE(buf, off)]

\* the bytes header.writeUInt16LE(v, _) and header.writeUInt32LE(n, _) store;
\* they throw a RangeError for a value above 0xFFFF and 0xFFFFFFFF
writeUInt16LE(v) == <<v % 256, v \div 256>>
writeUInt32LE(n) == writeUInt16LE(n.lo) \o writeUInt16LE(n.hi)

\* the character codes of the four markers
Ascii ==
  [RIFF |-> <<82, 73, 70, 70>>, WAVE |-> <<87, 65, 86, 69>>,
   fmt |-> <<102, 109, 116, 32>>, data |-> <<100, 97, 116, 97>>]

\* buf.subarray(start, end): both ends are clamped to the buffer
subarray(buf, start, end) ==
  LET e == IF end > Len(buf) THEN Len(buf) ELSE end
  IN IF start >= e THEN << >> ELSE SubSeq(buf, start + 1, e)

\* buf.toString('ascii', start, end): decoding clears the high bit of a byte
toAscii(buf, start, end) ==
  LET bytes == subarray(buf, start, end) IN [k \in DOMAIN bytes |-> bytes[k] % 128]

\* the locals of parseWav before its loop (lines 322-330)
NoInfo ==
  [error |-> << >>, fmtFound |-> FALSE, dataFound |-> FALSE, format |-> 1, channels |-> 1,
   sampleRate |-> Big(16000), bitsPerSample |-> 16, dataOffset |-> 0, dataLength |-> Big(0)]

\* the while loop of parseWav from pos on; a read of the format chunk past
\* the end of the buffer throws a RangeError
RECURSIVE WalkChunks(_, _, _)
WalkChunks(buf, pos, info) ==
  IF ~(pos + 8 <= Len(buf)) THEN info
  ELSE LET id == toAscii(buf, pos, pos + 4)
           size == readUInt32LE(buf, pos + 4)
           chunkStart == pos + 8
           next == IF size.hi > 0 THEN Len(buf) + 1 ELSE chunkStart + size.lo + (size.lo % 2)
       IN IF id = Ascii.fmt
            THEN IF chunkStart + 16 > Len(buf)
                   THEN [info EXCEPT !.error = <<"ERR_OUT_OF_RANGE: offset">>]
                 ELSE WalkChunks(buf, next,
                        [info EXCEPT !.format = readUInt16LE(buf, chunkStart),
                                     !.channels = readUInt16LE(buf, chunkStart + 2),
                                     !.sampleRate = readUInt32LE(buf, chunkStart + 4),
                                     !.bitsPerSample = readUInt16LE(buf, chunkStart + 14),
                                     !.fmtFound = TRUE])
          ELSE IF id = Ascii.data
            THEN WalkChunks(buf, next,
                   [info EXCEPT !.dataOffset = chunkStart, !.dataLength = size,
                                !.dataFound = TRUE])
          ELSE WalkChunks(buf, next, info)

\* parseWav(buf): the WavInfo, or the error thrown
parseWav(buf) ==
  IF toAscii(buf, 0, 4) # Ascii.RIFF \/ toAscii(buf, 8, 12) # Ascii.WAVE
    THEN [NoInfo EXCEPT !.error = <<"Not a RIFF/WAVE file">>]
  ELSE LET info == WalkChunks(buf, 12, NoInfo)
       IN IF info.error # << >> THEN info
          ELSE IF ~info.fmtFound \/ ~info.dataFound
            THEN [info EXCEPT !.error = <<"Invalid WAV: missing fmt or data">>]
          ELSE info

\* a comparison that leaves the sample width out
DescriptorWithoutBits(i) ==
  [format |-> i.format, channels |-> i.channels, sampleRate |-> i.sampleRate,
   bitsPerSample |-> 16]

\* {format tag, channel count, sample rate, bits per sample} of a WavInfo
Descriptor(i) ==
  [format |-> i.format, channels |-> i.channels, sampleRate |-> i.sampleRate,
   bitsPerSample |-> i.bitsPerSample]

\* infos.reduce((acc, i) => acc + i.dataLength, 0)
RECURSIVE totalData(_)
totalData(infos) ==
  IF infos = << >> THEN Big(0) ELSE Plus(Head(infos).dataLength, totalData(Tail(infos)))

\* a header with the container size of the whole file, markers included
HeaderWholeFile(first, total) ==
  LET rate == first.sampleRate.hi * 65536 + first.sampleRate.lo
  IN Ascii.RIFF \o writeUInt32LE(Plus(Big(44), total)) \o Ascii.WAVE
       \o Ascii.fmt \o writeUInt32LE(Big(16))
       \o writeUInt16LE(first.format) \o writeUInt16LE(first.channels)
       \o writeUInt32LE(first.sampleRate)
       \o writeUInt32LE(Big((rate * first.channels * first.bitsPerSample) \div 8))
       \o writeUInt16LE((first.channels * first.bitsPerSample) \div 8)
       \o writeUInt16LE(first.bitsPerSample)
       \o Ascii.data \o writeUInt32LE(total)

\* a header with blockAlign and bitsPerSample at each other's offset
HeaderSwapped(first, total) ==
  LET rate == first.sampleRate.hi * 65536 + first.sampleRate.lo
  IN Ascii.RIFF \o writeUInt32LE(Plus(Big(36), total)) \o Ascii.WAVE
       \o Ascii.fmt \o writeUInt32LE(Big(16))
       \o writeUInt16LE(first.format) \o writeUInt16LE(first.channels)
       \o writeUInt32LE(first.sampleRate)
       \o writeUInt32LE(Big((rate * first.channels * first.bitsPerSample) \div 8))
       \o writeUInt16LE(first.bitsPerSample)
       \o writeUInt16LE((first.channels * first.bitsPerSample) \div 8)
       \o Ascii.data \o writeUInt32LE(total)

\* the 44 bytes of the header (lines 370-385); the sample rates of the model
\* are such that byteRate is within the checker's integers
Header(first, total) ==
  LET fmtChunkSize == 16
      riffChunkSize == Plus(Big(4 + (8 + fmtChunkSize) + 8), total)
      rate == first.sampleRate.hi * 65536 + first.sampleRate.lo
      byteRate == (rate * first.channels * first.bitsPerSample) \div 8
      blockAlign == (first.channels * first.bitsPerSample) \div 8
  IN Ascii.RIFF \o writeUInt32LE(riffChunkSize) \o Ascii.WAVE
       \o Ascii.fmt \o writeUInt32LE(Big(fmtChunkSize))
       \o writeUInt16LE(first.format) \o writeUInt16LE(first.channels)
       \o writeUInt32LE(first.sampleRate) \o writeUInt32LE(Big(byteRate))
       \o writeUInt16LE(blockAlign) \o writeUInt16LE(first.bitsPerSample)
       \o Ascii.data \o writeUInt32LE(total)

\* Buffer.concat(parts)
RECURSIVE concat(_)
concat(parts) == IF parts = << >> THEN << >> ELSE Head(parts) \o concat(Tail(parts))

\* parts that take the padding byte of an odd payload with them
pcmPartsWithPad(inputFiles, infos) ==
  [k \in DOMAIN infos |->
     LET i == infos[k]
     IN subarray(inputFiles[k], i.dataOffset,
                 IF i.dataLength.hi > 0 THEN Len(inputFiles[k])
                 ELSE i.dataOffset + i.dataLength.lo + (i.dataLength.lo % 2))]

\* infos.map(i => i.buffer.subarray(i.dataOffset, i.dataOffset + i.dataLength))
pcmParts(inputFiles, infos) ==
  [k \in DOMAIN infos |->
     LET i == infos[k]
     IN subarray(inputFiles[k], i.dataOffset,
                 IF i.dataLength.hi > 0 THEN Len(inputFiles[k])
                 ELSE i.dataOffset + i.dataLength.lo)]

\* what a call of combineWavs ends with: the error thrown, or the file written
Thrown(msg) == [error |-> <<msg>>, wrote |-> FALSE, file |-> << >>]

\* combineWavs(inputFiles, outputFile) on the contents of the input files: the
\* first fragment that does not parse throws, then the first that differs from
\* infos[0], then the header writes; the output is written last
combineWavs(inputFiles) ==
  LET infos == [k \in DOMAIN inputFiles |-> parseWav(inputFiles[k])]
      failed == {k \in DOMAIN infos : infos[k].error # << >>}
      first == infos[1]
      total == totalData(infos)
  IN IF failed # {}
       THEN Thrown(infos[CHOOSE k \in failed : \A m \in failed : k <= m].error[1])
     ELSE IF \E k \in DOMAIN infos : Descriptor(infos[k]) # Descriptor(first)
       THEN Thrown("WAV format mismatch between chunks")
     ELSE IF Plus(Big(36), total).hi > 65535
            \/ (first.channels * first.bitsPerSample) \div 8 > 65535
       THEN Thrown("ERR_OUT_OF_RANGE: value")
     ELSE [error |-> << >>, wrote |-> TRUE,
           file |-> Header(first, total) \o concat(pcmParts(inputFiles, infos))]

(* ------------------------------- state -------------------------------- *)

VARIABLES
  activeJobs,   \* the registry: job id -> JobStatus record
  tasks,        \* the background task of each accepted submission
  writes,       \* per task, the JobStatus writes it made, in order
  now,          \* the last value Date.now() returned
  reply,        \* the result the step returns to the renderer, if it is an IPC call
  \* the renderer (AddBookModal and the processing slice of the store)
  processing,           \* useStore().processing
  jobNotFoundAttempts,  \* the ref of the polling effect
  error,                \* the error banner of the modal
  inflight,             \* answers to status polls on their way to the renderer
  pendingUpload,        \* the answer to processBookComplete on its way, if any
  cleared,              \* the job ids that were current when clearProcessing ran
  launched,             \* TRUE once the application has been relaunched
  notFoundRun,          \* 'Job not found' answers received in a row since the tracked
                        \* job was started (history; no code reads it)
  \* the operating system
  children,     \* per task, the child processes it spawned that are alive
  spawns,       \* per task, the executables it spawned, in order
  files,        \* the paths that exist, of those the tasks create and delete
  locals,       \* per task, its path variables
  \* a call of one of the pure helpers: its arguments and its result; or the
  \* state of a part of the host that is checked on its own
  calc

ui == <<processing, jobNotFoundAttempts, error, inflight, pendingUpload, cleared, launched,
       notFoundRun>>
os == <<children, spawns, files, locals>>
vars == <<activeJobs, tasks, writes, now, reply, ui, os, calc>>

IdleTask ==
  [pc |-> "idle", jobId |-> << >>, fileName |-> NoString, title |-> NoString, dir |-> << >>,
   voiceCloning |-> "undefined", totalChunks |-> 0, i |-> 0, thrown |-> "none"]

\* the path variables of a background task, the list it gave combineWavs, the
\* prompt it resolved and the '--prompt' of each synthesis call it made
NoLocals ==
  [tempChunkFiles |-> << >>, tmpTextPath |-> << >>, tempPath |-> << >>, combined |-> << >>,
   promptPath |-> NotFound, prompts |-> << >>]

\* no helper call is under way
NoCalc == [fn |-> "none"]

NoReply == [op |-> "none"]

\* null, as a job id and as a status record; "" as an error banner
NoJob == <<"null">>
NoStatus == [stage |-> "null"]
NoError == << >>

defaultProcessingState == [currentJobId |-> NoJob, uploading |-> FALSE, status |-> NoStatus]

InitHost ==
  /\ activeJobs = << >>
  /\ tasks = [t \in Tasks |-> IdleTask]
  /\ writes = [t \in Tasks |-> << >>]
  /\ now = 0
  /\ reply = NoReply
  /\ processing = defaultProcessingState
  /\ jobNotFoundAttempts = 0
  /\ notFoundRun = 0
  /\ error = NoError
  /\ inflight = << >>
  /\ pendingUpload = NoReply
  /\ cleared = {}
  /\ launched = FALSE
  /\ children = [t \in Tasks |-> {}]
  /\ spawns = [t \in Tasks |-> << >>]
  /\ files = {}
  /\ locals = [t \in Tasks |-> NoLocals]

Init == InitHost /\ calc = NoCalc

(* ----------------------------- job registry --------------------------- *)

Registered == DOMAIN activeJobs

\* activeJobs[jobId] = { ...activeJobs[jobId], ...patch }
update(record, patch) == patch @@ record

RECURSIVE ApplyPatches(_, _)
ApplyPatches(record, patches) ==
  IF patches = << >> THEN record
  ELSE ApplyPatches(update(record, Head(patches)), Tail(patches))

\* the background task t applies the patches, in order, to its registry entry
Write(t, patches) ==
  /\ activeJobs' = [activeJobs EXCEPT ![tasks[t].jobId] = ApplyPatches(@, patches)]
  /\ writes' = [writes EXCEPT ![t] = @ \o patches]

\* catch (e) { update({stage: 'failed', progress: -1, message: msg, status: 'failed'}) }
FailedPatch(msg) ==
  [stage |-> "failed", progress |-> -1, message |-> msg, status |-> "failed"]

\* a catch that records the failure and lets the task run on
ThrowAndContinue(t, before, msg) ==
  /\ Write(t, before \o <<FailedPatch(msg)>>)
  /\ tasks' = [tasks EXCEPT ![t].thrown = tasks[t].pc]

\* an exception that escapes the catch: nothing is recorded
ThrowEscapes(t, before, msg) ==
  /\ Write(t, before)
  /\ tasks' = [tasks EXCEPT ![t].pc = "failed", ![t].thrown = tasks[t].pc]

\* a stage of task t throws: the patches written before the throw, then the
\* outer catch, which ends the task; `thrown` remembers where it was thrown
Throw(t, before, msg) ==
  /\ Write(t, before \o <<FailedPatch(msg)>>)
  /\ tasks' = [tasks EXCEPT ![t].pc = "failed", ![t].thrown = tasks[t].pc]

\* completion without the finalizing update
FinishWithoutFinalizing(t) ==
  << [stage |-> "completed", progress |-> 100,
      message |-> <<"Processed successfully", tasks[t].title>>,
      status |-> "completed", files_created |-> "audio"] >>

\* update({stage: 'finalizing', ...}); update({stage: 'completed', ...})
FinishPatches(t) ==
  << [stage |-> "finalizing", progress |-> 95, message |-> <<"Finalizing...">>],
     [stage |-> "completed", progress |-> 100,
      message |-> <<"Processed successfully", tasks[t].title>>,
      status |-> "completed", files_created |-> "audio"] >>

\* a lookup that stops answering for jobs that have ended
get_processing_status_running_only(jobId) ==
  IF jobId \notin Registered \/ activeJobs[jobId].status # "processing"
    THEN [op |-> "status", jobId |-> jobId, success |-> FALSE, error |-> "Job not found"]
    ELSE [op |-> "status", jobId |-> jobId, success |-> TRUE, result |-> activeJobs[jobId]]

\* get-processing-status
get_processing_status(jobId) ==
  IF jobId \notin Registered
    THEN [op |-> "status", jobId |-> jobId, success |-> FALSE, error |-> "Job not found"]
    ELSE [op |-> "status", jobId |-> jobId, success |-> TRUE, result |-> activeJobs[jobId]]

\* a handler that drops the entry of an ended job once it has been read
GetProcessingStatusOnce(jobId) ==
  /\ reply' = get_processing_status(jobId)
  /\ activeJobs' =
       IF jobId \in Registered /\ activeJobs[jobId].status # "processing"
         THEN [id \in Registered \ {jobId} |-> activeJobs[id]]
         ELSE activeJobs
  /\ UNCHANGED <<tasks, writes, now, ui, os, calc>>

GetProcessingStatus(jobId) ==
  /\ reply' = get_processing_status(jobId)
  /\ UNCHANGED <<activeJobs, tasks, writes, now, ui, os, calc>>

(* ------------------------ process-book-complete ----------------------- *)

\* the slot of the next accepted submission
FreeSlots(jobBound) == {t \in 1..jobBound : tasks[t].pc = "idle"}
FreeSlot(jobBound) == CHOOSE t \in FreeSlots(jobBound) : \A u \in FreeSlots(jobBound) : t <= u

\* a validation that forgets the author
MissingFieldsNoAuthor(bookData) ==
  \/ bookData.name = NoString
  \/ ~bookData.pdfData
  \/ bookData.title = NoString
  \/ bookData.bookPath = NoString

MissingFields(bookData) ==
  \/ bookData.name = NoString
  \/ ~bookData.pdfData
  \/ bookData.title = NoString
  \/ ~bookData.author
  \/ bookData.bookPath = NoString

UnsupportedType(bookData) ==
  ~isPdf(bookData.name) /\ ~isTxt(bookData.name)

\* the entry created at submission
StartingRecord(bookData) ==
  [stage |-> "starting", progress |-> 0,
   message |-> <<"Started processing", bookData.title>>,
   status |-> "processing", filename |-> bookData.name, title |-> bookData.title]

SavingPatch ==
  [stage |-> "saving_file", progress |-> 5, message |-> <<"Saving file (0-30%)...">>]

SubmitError(bookData, msg) ==
  [op |-> "submit", request |-> bookData, success |-> FALSE, error |-> msg]

\* the handler up to its return: validation, mkdir, the registry entry, and the
\* background task's synchronous prefix (its first update, up to the first await)
ProcessBookComplete(bookData, mkdirOk, time, jobBound) ==
  IF MissingFields(bookData) THEN
    /\ reply' = SubmitError(bookData, <<"Missing required fields for processing">>)
    /\ UNCHANGED <<activeJobs, tasks, writes, now>>
  ELSE IF UnsupportedType(bookData) THEN
    /\ reply' = SubmitError(bookData, <<"Unsupported file type. Only PDF and TXT files are supported.">>)
    /\ UNCHANGED <<activeJobs, tasks, writes, now>>
  ELSE IF ~mkdirOk THEN
    /\ reply' = SubmitError(bookData, <<"mkdir failed">>)
    /\ UNCHANGED <<activeJobs, tasks, writes, now>>
  ELSE
    /\ FreeSlots(jobBound) # {}
    /\ time >= now
    /\ LET t == FreeSlot(jobBound)
           jobId == JobIdOf(bookData.name, time)
       IN /\ activeJobs' = (jobId :> update(StartingRecord(bookData), SavingPatch)) @@ activeJobs
          /\ writes' = [writes EXCEPT ![t] = <<StartingRecord(bookData), SavingPatch>>]
          /\ tasks' = [tasks EXCEPT ![t] =
                 [pc |-> "saving_file", jobId |-> jobId, fileName |-> bookData.name,
                  title |-> bookData.title,
                  dir |-> outputDir(bookData.bookPath, bookData.title),
                  voiceCloning |-> bookData.voiceCloning, totalChunks |-> 0, i |-> 0,
                  thrown |-> "none"]]
          /\ reply' = [op |-> "submit", request |-> bookData, success |-> TRUE,
                        job_id |-> jobId]
          /\ now' = time

(* ---------------------- the background task's stages ------------------- *)

At(t, pc) == tasks[t].pc = pc
Goto(t, pc) == tasks' = [tasks EXCEPT ![t].pc = pc]

\* spawn(exe, args): the child of task t is alive from here on
Spawn(t, exe) ==
  /\ children' = [children EXCEPT ![t] = @ \cup {exe}]
  /\ spawns' = [spawns EXCEPT ![t] = Append(@, exe)]

\* child.on('error') / child.on('close'): the child of task t is gone
Reap(t, exe) ==
  /\ children' = [children EXCEPT ![t] = @ \ {exe}]
  /\ UNCHANGED spawns

\* os.tmpdir(), written as a directory like outputDir
tmpdir == outputDir(<<"tmp">>, << >>)

\* tmp_chunk_${i}.wav in the audio directory of the book
chunkOut(t, i) == <<tasks[t].dir, "tmp_chunk", i>>
\* the combined audio of the book
outPath(t) == <<tasks[t].dir, "audio">>
\* os.tmpdir()/tts_text_${Date.now()}_${i}.txt
tmpTextPathOf(time, i) == <<tmpdir, "tts_text", time, i>>
\* os.tmpdir()/speed_adjusted_${Date.now()}.wav
tempPathOf(time) == <<tmpdir, "speed_adjusted", time>>

\* close handlers that all treat every non-zero exit code alike
ExitMessageGeneric(cli, outcome) ==
  IF outcome[1] = "error" THEN <<cli, "spawn failed">>
  ELSE IF cli \in {"tts_cli", "ffmpeg"}
    THEN <<cli, "exited", outcome[2], sanitizeCliOutput(outcome[3])>>
  ELSE <<cli, "exited", outcome[2], outcome[3]>>

\* reject(new Error(...)) of a child that did not close with code 0: only the
\* handlers of main_cli and ffmpeg sanitize stderr, and only the handler of
\* main_cli knows the access violation
ExitMessage(cli, outcome) ==
  IF outcome[1] = "error" THEN <<cli, "spawn failed">>
  ELSE IF cli = "tts_cli" /\ outcome[2] = AccessViolation
    THEN <<cli, "encountered an access violation (0xC0000005). Try shorter text and ensure sufficient memory",
           outcome[2], sanitizeCliOutput(outcome[3])>>
  ELSE IF cli \in {"tts_cli", "ffmpeg"}
    THEN <<cli, "exited", outcome[2], sanitizeCliOutput(outcome[3])>>
  ELSE <<cli, "exited", outcome[2], outcome[3]>>

\* code === 0
Succeeded(outcome) == outcome[1] = "close" /\ outcome[2] = "0"

\* await fs.writeFile(fileOut, ...), then the first update of the conversion stage
SaveFile(t, ok) ==
  /\ At(t, "saving_file")
  /\ IF ~ok THEN Throw(t, << >>, <<"writeFile failed">>)
     ELSE IF isPdf(tasks[t].fileName) THEN
       /\ Write(t, <<[stage |-> "converting_pdf", progress |-> 10,
                      message |-> <<"Converting PDF to text (0-30%)...">>]>>)
       /\ Goto(t, "converting_pdf")
     ELSE
       /\ Write(t, <<[stage |-> "converting_txt", progress |-> 10,
                      message |-> <<"Processing TXT file (0-30%)...">>]>>)
       /\ Goto(t, "converting_txt")
  /\ reply' = NoReply /\ UNCHANGED <<now, ui, os, calc>>

\* fs.access(pdf_cli), then spawn inside the promise executor
SpawnPdfCli(t, hasCompiledCli) ==
  /\ At(t, "converting_pdf")
  /\ IF ~hasCompiledCli
       THEN Throw(t, << >>, <<"PDF CLI executable not found">>) /\ UNCHANGED <<children, spawns>>
       ELSE Goto(t, "pdf_cli") /\ Spawn(t, <<"pdf_cli">>) /\ UNCHANGED <<activeJobs, writes>>
  /\ reply' = NoReply /\ UNCHANGED <<now, ui, files, locals, calc>>

\* child.on('error') / child.on('close') of pdf_cli
ClosePdfCli(t, outcome) ==
  /\ At(t, "pdf_cli")
  /\ Reap(t, <<"pdf_cli">>)
  /\ IF Succeeded(outcome)
       THEN /\ Write(t, <<[stage |-> "converted_pdf", progress |-> 30,
                           message |-> <<"PDF converted (30%)">>]>>)
            /\ Goto(t, "read_md")
       ELSE Throw(t, << >>, ExitMessage("pdf_cli", outcome))
  /\ reply' = NoReply /\ UNCHANGED <<now, ui, files, locals, calc>>

\* TXT -> MD directly: readFile, clean, writeFile
ConvertTxt(t, ok) ==
  /\ At(t, "converting_txt")
  /\ IF ok
       THEN /\ Write(t, <<[stage |-> "converted_txt", progress |-> 30,
                           message |-> <<"TXT processed (30%)">>]>>)
            /\ Goto(t, "read_md")
       ELSE Throw(t, << >>, <<"fs error">>)
  /\ reply' = NoReply /\ UNCHANGED <<now, ui, os, calc>>

\* voiceCloning.selectedSampleId of an options object with enabled set
SelectedSampleId == <<"a">>

\* the listings of the samples directory: empty or unreadable, the sample of
\* the selected id, a directory of that name
SampleDirs ==
  {<< >>, <<[name |-> <<"a", "_", "x">>, isFile |-> TRUE]>>,
   <<[name |-> <<"a">>, isFile |-> FALSE], [name |-> <<"a", "a", "_", "x">>, isFile |-> TRUE]>>}

\* a task that gives up when the selected sample is not found
PrepareAudioStrict(t, ok, n, entries) ==
  /\ At(t, "read_md")
  /\ IF ok /\ resolve(SelectedSampleId, entries) # NotFound
       THEN /\ Write(t, <<[stage |-> "generating_audio", progress |-> 30,
                           message |-> <<"Preparing audio generation (30-60%)...">>]>>)
            /\ tasks' = [tasks EXCEPT ![t].pc = "tts_chunk", ![t].totalChunks = n, ![t].i = 0]
            /\ locals' = [locals EXCEPT ![t].promptPath = resolve(SelectedSampleId, entries)]
       ELSE /\ Throw(t, << >>, IF ok THEN <<"Voice sample not found">> ELSE <<"fs error">>)
            /\ UNCHANGED locals
  /\ reply' = NoReply /\ UNCHANGED <<now, ui, children, spawns, files, calc>>

\* read pdf_result.md, resolve the prompt (a readdir that fails counts as an
\* empty directory), split the text into n chunks
PrepareAudio(t, ok, n, entries) ==
  /\ At(t, "read_md")
  /\ IF ok
       THEN /\ Write(t, <<[stage |-> "generating_audio", progress |-> 30,
                           message |-> <<"Preparing audio generation (30-60%)...">>]>>)
            /\ tasks' = [tasks EXCEPT ![t].pc = "tts_chunk", ![t].totalChunks = n, ![t].i = 0]
            /\ locals' = [locals EXCEPT ![t].promptPath =
                            IF tasks[t].voiceCloning = "enabled"
                              THEN resolve(SelectedSampleId, entries) ELSE NotFound]
       ELSE /\ Throw(t, << >>, <<"fs error">>)
            /\ UNCHANGED locals
  /\ reply' = NoReply /\ UNCHANGED <<now, ui, children, spawns, files, calc>>

GeneratingPatch(i, totalChunks) ==
  [stage |-> "generating_audio", progress |-> ChunkProgress(i, totalChunks),
   message |-> <<"Generating audio chunk", i + 1, totalChunks>>]

\* a chunk loop that does not await the child before its next iteration
SpawnTtsCliNoAwait(t, writeOk, hasCompiledTts, time) ==
  /\ At(t, "tts_chunk")
  /\ writeOk /\ hasCompiledTts /\ time = now
  /\ Write(t, <<GeneratingPatch(tasks[t].i, tasks[t].totalChunks)>>)
  /\ tasks' = [tasks EXCEPT ![t].i = IF @ + 1 < tasks[t].totalChunks THEN @ + 1 ELSE @,
                            ![t].pc = IF tasks[t].i + 1 < tasks[t].totalChunks
                                        THEN "tts_chunk" ELSE "tts_cli"]
  /\ files' = files \cup {tmpTextPathOf(time, tasks[t].i)}
  /\ locals' = [locals EXCEPT ![t].tmpTextPath = tmpTextPathOf(time, tasks[t].i),
                              ![t].tempChunkFiles = Append(@, chunkOut(t, tasks[t].i))]
  /\ Spawn(t, <<"tts_cli", tasks[t].i>>)
  /\ reply' = NoReply /\ UNCHANGED <<now, ui, calc>>

\* one iteration of the chunk loop up to the spawn of main_cli: the text file
\* named after Date.now() and i is written, chunkOut is pushed, the progress is
\* updated; hasCompiledTts is decided once, before the loop, so it can only be
\* FALSE at chunk 0
SpawnTtsCli(t, writeOk, hasCompiledTts, time) ==
  /\ At(t, "tts_chunk")
  /\ tasks[t].i > 0 => hasCompiledTts
  /\ time >= now
  /\ now' = time
  /\ LET i == tasks[t].i
         patch == GeneratingPatch(i, tasks[t].totalChunks)
         written == /\ files' = files \cup {tmpTextPathOf(time, i)}
                    /\ locals' = [locals EXCEPT ![t].tmpTextPath = tmpTextPathOf(time, i),
                                                ![t].tempChunkFiles = Append(@, chunkOut(t, i)),
                                                ![t].prompts =
                                                  IF hasCompiledTts
                                                    THEN Append(@, locals[t].promptPath) ELSE @]
     IN IF ~writeOk
          THEN /\ Throw(t, << >>, <<"writeFile failed">>)
               /\ locals' = [locals EXCEPT ![t].tmpTextPath = tmpTextPathOf(time, i)]
               /\ UNCHANGED <<children, spawns, files>>
        ELSE IF ~hasCompiledTts
          THEN /\ Throw(t, <<patch>>, <<"TTS CLI executable not found">>)
               /\ written
               /\ UNCHANGED <<children, spawns>>
        ELSE /\ Write(t, <<patch>>)
             /\ Goto(t, "tts_cli")
             /\ written
             /\ Spawn(t, <<"tts_cli", i>>)
  /\ reply' = NoReply /\ UNCHANGED <<ui, calc>>

CombiningPatch ==
  [stage |-> "combining_audio", progress |-> 58, message |-> <<"Combining audio chunks">>]

\* a chunk loop that runs a failed chunk again
CloseTtsCliRetry(t, outcome) ==
  /\ At(t, "tts_cli")
  /\ Reap(t, <<"tts_cli", tasks[t].i>>)
  /\ IF ~Succeeded(outcome)
       THEN Goto(t, "tts_chunk") /\ UNCHANGED <<activeJobs, writes, files>>
     ELSE /\ files' = (files \ {locals[t].tmpTextPath}) \cup {chunkOut(t, tasks[t].i)}
          /\ IF tasks[t].i + 1 < tasks[t].totalChunks
               THEN /\ tasks' = [tasks EXCEPT ![t].pc = "tts_chunk", ![t].i = @ + 1]
                    /\ UNCHANGED <<activeJobs, writes>>
               ELSE /\ Write(t, <<CombiningPatch>>)
                    /\ tasks' = [tasks EXCEPT ![t].pc = "combining_audio", ![t].i = @ + 1]
  /\ reply' = NoReply /\ UNCHANGED <<now, ui, locals, calc>>

\* child.on('error') / child.on('close') of main_cli; after a resolve the
\* fragment is there, the text file is unlinked and the loop test follows
CloseTtsCli(t, outcome) ==
  /\ At(t, "tts_cli")
  /\ Reap(t, <<"tts_cli", tasks[t].i>>)
  /\ IF ~Succeeded(outcome)
       THEN Throw(t, << >>, ExitMessage("tts_cli", outcome)) /\ UNCHANGED files
     ELSE /\ files' = (files \ {locals[t].tmpTextPath}) \cup {chunkOut(t, tasks[t].i)}
          /\ IF tasks[t].i + 1 < tasks[t].totalChunks
               THEN /\ tasks' = [tasks EXCEPT ![t].pc = "tts_chunk", ![t].i = @ + 1]
                    /\ UNCHANGED <<activeJobs, writes>>
               ELSE /\ Write(t, <<CombiningPatch>>)
                    /\ tasks' = [tasks EXCEPT ![t].pc = "combining_audio", ![t].i = @ + 1]
  /\ reply' = NoReply /\ UNCHANGED <<now, ui, locals, calc>>

CombineResults == {"ok", "Not a RIFF/WAVE file", "Invalid WAV: missing fmt or data",
                   "WAV format mismatch between chunks", "ERR_OUT_OF_RANGE: offset",
                   "ERR_OUT_OF_RANGE: value"}

\* await combineWavs(tempChunkFiles, outPath), which reads every fragment, then
\* for non-cloned audio adjustAudioSpeed up to its spawn of ffmpeg
CombineWavs(t, result, time) ==
  /\ At(t, "combining_audio")
  /\ time >= now
  /\ now' = time
  /\ IF ~(Range(locals[t].tempChunkFiles) \subseteq files)
       THEN /\ Throw(t, << >>, <<"ENOENT">>)
            /\ time = now
            /\ UNCHANGED os
     ELSE IF result # "ok"
       THEN /\ Throw(t, << >>, <<result>>)
            /\ time = now
            /\ locals' = [locals EXCEPT ![t].combined = locals[t].tempChunkFiles]
            /\ UNCHANGED <<children, spawns, files>>
     ELSE IF tasks[t].voiceCloning = "undefined"
       THEN /\ Write(t, <<[stage |-> "adjusting_speed", progress |-> 60,
                           message |-> <<"Adjusting speech speed">>]>>)
            /\ Goto(t, "ffmpeg")
            /\ files' = files \cup {outPath(t)}
            /\ locals' = [locals EXCEPT ![t].combined = locals[t].tempChunkFiles,
                                        ![t].tempPath = tempPathOf(time)]
            /\ Spawn(t, <<"ffmpeg">>)
       ELSE /\ Goto(t, "cleanup")
            /\ time = now
            /\ files' = files \cup {outPath(t)}
            /\ locals' = [locals EXCEPT ![t].combined = locals[t].tempChunkFiles]
            /\ UNCHANGED <<activeJobs, writes, children, spawns>>
  /\ reply' = NoReply /\ UNCHANGED <<ui, calc>>

\* child.on('error') / child.on('close') of ffmpeg in adjustAudioSpeed: after
\* exit 0 the scratch output is copied over the audio and unlinked
CloseFfmpeg(t, outcome, copyOk) ==
  /\ At(t, "ffmpeg")
  /\ Reap(t, <<"ffmpeg">>)
  /\ IF ~Succeeded(outcome)
       THEN Throw(t, << >>, ExitMessage("ffmpeg", outcome)) /\ UNCHANGED files
     ELSE IF ~copyOk
       THEN /\ Throw(t, << >>, <<"Failed to replace audio file">>)
            /\ files' = files \cup {locals[t].tempPath}
     ELSE Goto(t, "cleanup") /\ UNCHANGED <<activeJobs, writes, files>>
  /\ reply' = NoReply /\ UNCHANGED <<now, ui, locals, calc>>

TranscribingPatch ==
  [stage |-> "transcribing", progress |-> 60, message |-> <<"Transcribing audio (60-90%)...">>]

\* unlink the chunk files, write info.json (errors swallowed), then enter the
\* transcription try block: a missing whisperx_cli throws inside it
SpawnWhisperCli(t, hasCompiledWhisper) ==
  /\ At(t, "cleanup")
  /\ files' = files \ Range(locals[t].tempChunkFiles)
  /\ IF hasCompiledWhisper
       THEN /\ Write(t, <<TranscribingPatch>>)
            /\ Goto(t, "whisperx_cli")
            /\ Spawn(t, <<"whisperx_cli">>)
       ELSE /\ Write(t, <<TranscribingPatch>> \o FinishPatches(t))
            /\ tasks' = [tasks EXCEPT ![t].pc = "done", ![t].thrown = "transcribing"]
            /\ UNCHANGED <<children, spawns>>
  /\ reply' = NoReply /\ UNCHANGED <<now, ui, locals, calc>>

TranscribedPatch ==
  [stage |-> "transcribed", progress |-> 90, message |-> <<"Transcription complete (90%)">>]

\* child.on('error') / child.on('close') of whisperx_cli; a rejection is caught
\* by the inner catch and the job goes on to finalizing
CloseWhisperCli(t, outcome) ==
  /\ At(t, "whisperx_cli")
  /\ Reap(t, <<"whisperx_cli">>)
  /\ IF Succeeded(outcome)
       THEN Write(t, <<TranscribedPatch>> \o FinishPatches(t)) /\ Goto(t, "done")
       ELSE /\ Write(t, FinishPatches(t))
            /\ tasks' = [tasks EXCEPT ![t].pc = "done", ![t].thrown = "transcribing"]
  /\ reply' = NoReply /\ UNCHANGED <<now, ui, files, locals, calc>>

\* What the environment of a run may do: the chunk counts of the books, how
\* the children end, whether file operations succeed (fs), whether the
\* executables are installed (has), and what combineWavs finds.
FullEnv ==
  [chunks |-> 1..MaxLongChunks, outcomes |-> Outcomes, fs |-> BOOLEAN,
   has |-> BOOLEAN, combine |-> CombineResults, tick |-> TRUE, samples |-> SampleDirs]

\* short books, installed executables, children that exit with 0 or 1
ShortEnv ==
  [chunks |-> 1..MaxChunks, outcomes |-> QuietOutcomes,
   fs |-> {TRUE}, has |-> {TRUE}, combine |-> {"ok", "WAV format mismatch between chunks"},
   tick |-> FALSE, samples |-> {<< >>}]

\* one executable per stage, one chunk, children that exit with 0 or 1
TinyEnv ==
  [chunks |-> {1}, outcomes |-> QuietOutcomes,
   fs |-> {TRUE}, has |-> {TRUE}, combine |-> {"ok"}, tick |-> FALSE, samples |-> {<< >>}]

\* the values Date.now() may return to a task: the clock may have advanced
\* (tick), or the run is one in which it stands still while the tasks work
Clock(env) == IF env.tick THEN now..MaxTime ELSE {now}

\* one step of the background task t
TaskStep(t, env) ==
  \/ \E ok \in env.fs : SaveFile(t, ok)
  \/ \E has \in env.has : SpawnPdfCli(t, has)
  \/ \E o \in env.outcomes : ClosePdfCli(t, o)
  \/ \E ok \in env.fs : ConvertTxt(t, ok)
  \/ \E ok \in env.fs, n \in env.chunks, es \in env.samples : PrepareAudio(t, ok, n, es)
  \/ \E ok \in env.fs, has \in env.has, time \in Clock(env) : SpawnTtsCli(t, ok, has, time)
  \/ \E o \in env.outcomes : CloseTtsCli(t, o)
  \/ \E r \in env.combine, time \in Clock(env) : CombineWavs(t, r, time)
  \/ \E o \in env.outcomes, ok \in env.fs : CloseFfmpeg(t, o, ok)
  \/ \E has \in env.has : SpawnWhisperCli(t, has)
  \/ \E o \in env.outcomes : CloseWhisperCli(t, o)

(* ------------------------------ renderer ------------------------------ *)

\* consecutive 'Job not found' answers the polling effect lets pass
NotFoundTolerance == 3

\* startProcessing(jobId, meta)
startProcessing(jobId) ==
  [currentJobId |-> jobId, uploading |-> TRUE, status |-> NoStatus]

\* updateProcessingStatus(status)
updateProcessingStatus(current, status) ==
  [current EXCEPT !.uploading = (status.status = "processing"), !.status = status]

\* clearProcessing(), with the record of the job id it dropped
ClearProcessing(current) ==
  /\ processing' = defaultProcessingState
  /\ cleared' = IF current.currentJobId = NoJob THEN cleared
                ELSE cleared \cup {current.currentJobId}

\* the polling effect is mounted: if (processing.currentJobId && processing.uploading)
Polling == processing.currentJobId # NoJob /\ processing.uploading

\* uploadBook up to its await: the form is valid, the banner is reset and the
\* host runs process-book-complete; one upload is awaited at a time
UploadBook(bookData, mkdirOk, time) ==
  /\ ~processing.uploading
  /\ pendingUpload = NoReply
  /\ ProcessBookComplete(bookData, mkdirOk, time, 1)
  /\ pendingUpload' = reply'
  /\ error' = NoError
  /\ UNCHANGED <<processing, jobNotFoundAttempts, inflight, cleared, launched, notFoundRun,
                 os, calc>>

\* uploadBook after its await: startProcessing(newJobId), or the error banner
UploadDone ==
  /\ pendingUpload # NoReply
  /\ IF pendingUpload.success
       THEN /\ processing' = startProcessing(pendingUpload.job_id)
            /\ notFoundRun' = 0
            /\ UNCHANGED error
       ELSE error' = pendingUpload.error /\ UNCHANGED <<processing, notFoundRun>>
  /\ pendingUpload' = NoReply
  /\ reply' = NoReply
  /\ UNCHANGED <<activeJobs, tasks, writes, now, jobNotFoundAttempts, inflight, cleared, launched,
                 os, calc>>

\* pollStatus up to its await: the host answers get-processing-status for the
\* job id the effect was mounted with
PollSend ==
  /\ Polling
  /\ Len(inflight) < MaxInflight
  /\ reply' = get_processing_status(processing.currentJobId)
  /\ inflight' = Append(inflight, reply')
  /\ UNCHANGED <<activeJobs, tasks, writes, now, processing, jobNotFoundAttempts, error,
                 pendingUpload, cleared, launched, notFoundRun, os, calc>>

\* a retry test that lets one more answer pass
MayRetryOnceMore(result) ==
  result.error = "Job not found" /\ jobNotFoundAttempts <= NotFoundTolerance

\* errMsg.includes('job not found') && jobNotFoundAttempts.current < 3
MayRetry(result) ==
  result.error = "Job not found" /\ jobNotFoundAttempts < NotFoundTolerance

\* pollStatus after its await, on a successful answer
OnPollSuccess(status) ==
  LET updated == updateProcessingStatus(processing, status) IN
  /\ jobNotFoundAttempts' = 0
  /\ IF status.status = "completed"
       THEN ClearProcessing(updated) /\ UNCHANGED error
     ELSE IF status.status = "failed"
       THEN ClearProcessing(updated) /\ error' = status.message
     ELSE processing' = updated /\ UNCHANGED <<error, cleared>>

\* pollStatus after its await, on a failed answer
OnPollFailure(result) ==
  IF MayRetry(result)
    THEN /\ jobNotFoundAttempts' = jobNotFoundAttempts + 1
         /\ UNCHANGED <<processing, error, cleared>>
  ELSE IF result.error = "Job not found"
    THEN /\ ClearProcessing(processing)
         /\ UNCHANGED <<jobNotFoundAttempts, error>>
  ELSE /\ error' = result.error
       /\ ClearProcessing(processing)
       /\ UNCHANGED jobNotFoundAttempts

\* pollStatus after its await: the oldest answer arrives
PollReceive ==
  /\ inflight # << >>
  /\ IF Head(inflight).success
       THEN OnPollSuccess(Head(inflight).result)
       ELSE OnPollFailure(Head(inflight))
  /\ notFoundRun' = IF Head(inflight).success THEN 0
                    ELSE IF Head(inflight).error = "Job not found"
                           /\ notFoundRun < NotFoundTolerance THEN notFoundRun + 1
                    ELSE notFoundRun
  /\ inflight' = Tail(inflight)
  /\ reply' = NoReply
  /\ UNCHANGED <<activeJobs, tasks, writes, now, pendingUpload, launched, os, calc>>

\* the application is quit and launched again: the host starts with an empty
\* registry and no tasks, the renderer with fresh component state and the
\* persisted store
Relaunch ==
  /\ ~launched
  /\ now < MaxTime
  /\ launched' = TRUE
  /\ now' = now + 1
  /\ activeJobs' = << >>
  /\ tasks' = [t \in Tasks |-> IdleTask]
  /\ writes' = [t \in Tasks |-> << >>]
  /\ reply' = NoReply
  /\ jobNotFoundAttempts' = 0
  /\ notFoundRun' = 0
  /\ error' = NoError
  /\ inflight' = << >>
  /\ pendingUpload' = NoReply
  /\ children' = [t \in Tasks |-> {}]
  /\ spawns' = [t \in Tasks |-> << >>]
  /\ locals' = [t \in Tasks |-> NoLocals]
  /\ UNCHANGED <<processing, cleared, files, calc>>

(* --------------------------- specifications --------------------------- *)

Submit(data, mkdir, times, jobBound) ==
  /\ \E b \in data, ok \in mkdir, time \in times : ProcessBookComplete(b, ok, time, jobBound)
  /\ UNCHANGED <<ui, os, calc>>

Query == \E id \in JobIds : GetProcessingStatus(id)

\* the accepted submissions of books read without voice cloning
PlainBookData == {b \in ValidBookData : b.voiceCloning = "undefined"}

\* concurrent jobs of short books
Next ==
  \/ Submit(PlainBookData, {TRUE}, 0..MaxTime, MaxJobs)
  \/ \E t \in Tasks : TaskStep(t, ShortEnv)

Spec == Init /\ [][Next]_vars

\* concurrent jobs of one-chunk books, and status queries
NextQuery ==
  \/ Submit(PlainBookData, {TRUE}, 0..MaxTime, MaxJobs)
  \/ Query
  \/ \E t \in Tasks : TaskStep(t, TinyEnv)

SpecQuery == Init /\ [][NextQuery]_vars

\* the submissions whose title, if any, is TitleSpace
OneTitleBookData == {b \in BookData : b.title # TitleUnder}

\* one job of a long book, in any environment
NextOne ==
  \/ Submit(OneTitleBookData \cap ValidBookData, {TRUE}, {0}, 1)
  \/ TaskStep(1, FullEnv)

SpecOne == Init /\ [][NextOne]_vars

\* submissions, accepted and rejected, while one job of a short book runs
NextSubmit ==
  \/ Submit(OneTitleBookData, BOOLEAN, {0}, 1)
  \/ TaskStep(1, ShortEnv)

SpecSubmit == Init /\ [][NextSubmit]_vars

\* short books in any environment, the clock standing still
LiveEnv ==
  [chunks |-> 1..MaxChunks, outcomes |-> Outcomes, fs |-> BOOLEAN,
   has |-> BOOLEAN, combine |-> CombineResults, tick |-> FALSE, samples |-> SampleDirs]

\* one job of a short book whose task is always resumed: every await of the
\* task settles, because every spawned child emits 'error' or 'close'
NextLive ==
  \/ Submit(OneTitleBookData \cap ValidBookData, {TRUE}, {0}, 1)
  \/ TaskStep(1, LiveEnv)

SpecLive == Init /\ [][NextLive]_vars /\ WF_vars(TaskStep(1, LiveEnv))

host == <<activeJobs, tasks, writes, now, reply>>

\* the texts of at most n characters over an alphabet
TextsOver(chars, n) == UNION {[1..k -> chars] : k \in 0..n}

\* sanitizeCliOutput on its own: the output of a child that exited non-zero
OutputChars == {NoiseChar, "x", "\n", "\r", " "}

InitSanitize ==
  /\ InitHost
  /\ calc \in {[fn |-> "sanitizeCliOutput", raw |-> r, code |-> c, done |-> FALSE, out |-> << >>] :
                 r \in TextsOver(OutputChars, MaxOutput), c \in ExitCodes \ {"0"}}

Sanitize ==
  /\ calc.fn = "sanitizeCliOutput" /\ ~calc.done
  /\ calc' = [calc EXCEPT !.done = TRUE, !.out = sanitizeCliOutput(calc.raw)]
  /\ UNCHANGED <<host, ui, os>>

SpecSanitize == InitSanitize /\ [][Sanitize]_vars

\* splitTextIntoChunks on its own
TextChars == {"a", ".", " "}

InitChunk ==
  /\ InitHost
  /\ calc \in {[fn |-> "splitTextIntoChunks", text |-> x, maxChars |-> b, done |-> FALSE,
                 out |-> << >>] : x \in TextsOver(TextChars, MaxText), b \in 0..MaxBound}

Chunk ==
  /\ calc.fn = "splitTextIntoChunks" /\ ~calc.done
  /\ calc' = [calc EXCEPT !.done = TRUE, !.out = splitTextIntoChunks(calc.text, calc.maxChars)]
  /\ UNCHANGED <<host, ui, os>>

SpecChunk == InitChunk /\ [][Chunk]_vars

\* combineWavs on its own. A fragment is a file (bytes) together with what was
\* put into it: the descriptor and the payload bytes, the size its payload
\* chunk declares, and whether it is damaged (kind).
\* "plain": every chunk lies within the file; files as a synthesiser writes
\* them, with another descriptor, with one more chunk, in another chunk order.
\* Damaged: a wrong marker; no format chunk or no payload chunk; a chunk whose
\* declared size runs past the end of the file; a format chunk too short to
\* hold its fields (one of 14 bytes, one cut off by the end of the file).
Fragments ==
  LET Frag(kind, d, payload, declared, bytes) ==
        [kind |-> kind, desc |-> d, payload |-> payload, declared |-> declared,
         bytes |-> bytes]
      Desc0 == [format |-> 1, channels |-> 1, sampleRate |-> Big(22050), bitsPerSample |-> 16]
      OtherDescs ==
        {[Desc0 EXCEPT !.format = 3], [Desc0 EXCEPT !.channels = 2],
         [Desc0 EXCEPT !.sampleRate = Big(16000)], [Desc0 EXCEPT !.bitsPerSample = 8]}
      \* n payload bytes, different for every n
      Payload(n) == [k \in 1..n |-> 16 * n + k]
      \* a chunk record: 4-byte id, 4-byte little-endian size, body
      ChunkRecord(id, size, body) == id \o writeUInt32LE(size) \o body
      FmtChunk(d) ==
        ChunkRecord(Ascii.fmt, Big(16),
          writeUInt16LE(d.format) \o writeUInt16LE(d.channels) \o writeUInt32LE(d.sampleRate)
            \o writeUInt32LE(Big((d.sampleRate.lo * d.channels * d.bitsPerSample) \div 8))
            \o writeUInt16LE((d.channels * d.bitsPerSample) \div 8)
            \o writeUInt16LE(d.bitsPerSample))
      \* the payload chunk, padded to an even number of bytes
      DataChunk(payload) ==
        ChunkRecord(Ascii.data, Big(Len(payload)),
                    IF Len(payload) % 2 = 1 THEN payload \o <<0>> ELSE payload)
      List(size, body) == ChunkRecord(<<76, 73, 83, 84>>, Big(size), body)
      \* a file: the two markers around the container size, then the chunks
      File(riff, wave, chunks) == riff \o writeUInt32LE(Big(4 + Len(chunks))) \o wave \o chunks
      Wav(chunks) == File(Ascii.RIFF, Ascii.WAVE, chunks)
  IN {Frag("plain", Desc0, Payload(n), Big(n), Wav(FmtChunk(Desc0) \o DataChunk(Payload(n)))) :
        n \in 0..MaxPayload}
     \cup {Frag("plain", d, Payload(1), Big(1), Wav(FmtChunk(d) \o DataChunk(Payload(1)))) :
             d \in OtherDescs}
     \cup {Frag("plain", Desc0, Payload(2), Big(2),
                Wav(FmtChunk(Desc0) \o List(3, <<7, 7, 7, 0>>) \o DataChunk(Payload(2)))),
           Frag("plain", Desc0, Payload(1), Big(1),
                Wav(DataChunk(Payload(1)) \o FmtChunk(Desc0)))}
     \cup {Frag("bad magic", Desc0, Payload(2), Big(2),
                File(m[1], m[2], FmtChunk(Desc0) \o DataChunk(Payload(2)))) :
             m \in {<<<<82, 73, 70, 88>>, Ascii.WAVE>>, <<Ascii.RIFF, <<87, 65, 86, 70>>>>,
                    <<<<210, 73, 70, 70>>, Ascii.WAVE>>}}
     \cup {Frag("bad magic", Desc0, << >>, Big(0), <<82, 73>>)}
     \cup {Frag("missing chunk", Desc0, Payload(2), Big(2), Wav(DataChunk(Payload(2)))),
           Frag("missing chunk", Desc0, << >>, Big(0), Wav(FmtChunk(Desc0)))}
     \cup {Frag("past the end", Desc0, Payload(2), size,
                Wav(FmtChunk(Desc0) \o ChunkRecord(Ascii.data, size, Payload(2)))) :
             size \in {Big(6), [hi |-> 65535, lo |-> 65499], [hi |-> 65535, lo |-> 65500]}}
     \cup {Frag("past the end", Desc0, Payload(2), Big(2),
                Wav(FmtChunk(Desc0) \o DataChunk(Payload(2)) \o List(40, <<7, 7>>)))}
     \cup {Frag("short fmt", Desc0, Payload(2), Big(2),
                Wav(ChunkRecord(Ascii.fmt, Big(14), SubSeq(FmtChunk(Desc0), 9, 22))
                      \o DataChunk(Payload(2)))),
           Frag("short fmt", Desc0, Payload(2), Big(2),
                Wav(DataChunk(Payload(2)) \o ChunkRecord(Ascii.fmt, Big(4), <<1, 0, 1, 0>>)))}

\* the splices of the model: up to MaxFragments fragments, one of them at
\* most damaged
InitWav ==
  /\ InitHost
  /\ calc \in {[fn |-> "combineWavs", fragments |-> f, done |-> FALSE, out |-> Thrown("")] :
                 f \in {g \in UNION {[1..n -> Fragments] : n \in 1..MaxFragments} :
                          Cardinality({k \in DOMAIN g : g[k].kind # "plain"}) <= 1}}

Splice ==
  /\ calc.fn = "combineWavs" /\ ~calc.done
  /\ calc' = [calc EXCEPT !.done = TRUE,
                          !.out = combineWavs([k \in DOMAIN calc.fragments |->
                                                 calc.fragments[k].bytes])]
  /\ UNCHANGED <<host, ui, os>>

SpecWav == InitWav /\ [][Splice]_vars

\* the lookup on its own: a sample id and a directory of at most two entries.
\* A sample id starts with a letter: 'sample_<time>', or the part of a file
\* name before its first '_'.
InitResolve ==
  LET NameChars == {"a", "_", "."}
      Names == TextsOver(NameChars, MaxName) \ {<< >>}
      SampleIds == {id \in TextsOver(NameChars, MaxName - 1) : id # << >> /\ id[1] = "a"}
      Dirents == [name : Names, isFile : BOOLEAN]
  IN /\ InitHost
     /\ \E id \in SampleIds :
          \E es \in {<< >>} \cup {<<e>> : e \in Dirents}
                      \cup {d \in Dirents \X Dirents : d[2].isFile /\ d[2].name # d[1].name} :
            calc = [fn |-> "resolve", sampleId |-> id, entries |-> es, done |-> FALSE,
                    out |-> NotFound]

Resolve ==
  /\ calc.fn = "resolve" /\ ~calc.done
  /\ calc' = [calc EXCEPT !.done = TRUE, !.out = resolve(calc.sampleId, calc.entries)]
  /\ UNCHANGED <<host, ui, os>>

SpecResolve == InitResolve /\ [][Resolve]_vars

(* ----------------------------- speech speed --------------------------- *)

\* bookData.speechSpeed as process-book-complete may receive it: a number, in
\* tenths (the slider's step), or undefined, null, NaN, Infinity.
Num(n) == [kind |-> "number", n |-> n]
SpeechSpeeds ==
  {Num(n) : n \in -MaxSpeed..MaxSpeed}
    \cup {[kind |-> k, n |-> 0] : k \in {"undefined", "null", "NaN", "Infinity"}}

\* Number.isFinite(v)
isFinite(v) == v.kind = "number"

\* v || 0.7: the default replaces every falsy value (undefined, null, NaN, 0)
OrDefault(v) ==
  IF v.kind \in {"undefined", "null", "NaN"} \/ v = Num(0) THEN Num(DefaultSpeechSpeed) ELSE v

\* v ?? 0.7: the default replaces undefined and null
NullishDefault(v) ==
  IF v.kind \in {"undefined", "null"} THEN Num(DefaultSpeechSpeed) ELSE v

\* 0.5 + 0.5 * s, s the slider value clamped to [0, 1]; the result in twentieths
sliderToAtempo(sliderValue) ==
  LET v == IF isFinite(sliderValue) THEN sliderValue.n ELSE DefaultSpeechSpeed
      s == Max(0, IF SliderMax <= v THEN SliderMax ELSE v)
  IN SliderMax + s

\* the way of a speechSpeed through one job: read at submission, given to
\* adjustAudioSpeed after the splice unless the job has voice cloning options
InitSpeed ==
  /\ InitHost
  /\ \E v \in SpeechSpeeds, vc \in VoiceCloningOpts :
       calc = [fn |-> "speechSpeed", bookData |-> v, voiceCloning |-> vc, pc |-> "submitted",
               speechSpeed |-> Num(0), atempo |-> 0]

ReadSpeechSpeed ==
  /\ calc.fn = "speechSpeed" /\ calc.pc = "submitted"
  /\ calc' = [calc EXCEPT !.pc = "combined", !.speechSpeed = OrDefault(calc.bookData)]
  /\ UNCHANGED <<host, ui, os>>

AdjustSpeed ==
  /\ calc.fn = "speechSpeed" /\ calc.pc = "combined"
  /\ calc' = IF calc.voiceCloning = "undefined"
               THEN [calc EXCEPT !.pc = "adjusted",
                                 !.atempo = sliderToAtempo(NullishDefault(calc.speechSpeed))]
             ELSE [calc EXCEPT !.pc = "not adjusted"]
  /\ UNCHANGED <<host, ui, os>>

SpecSpeed == InitSpeed /\ [][ReadSpeechSpeed \/ AdjustSpeed]_vars

(* ---------------------- voice samples directory ----------------------- *)

\* getDefaultVoiceSamplesDir(); the directories a caller may ask for, '' among
\* them; voice-samples-config.json holds {directory: d}, is absent, or is empty
\* after a write that failed
DefaultDir == "userData/voice-samples"
Directories == {DefaultDir, "A", "B", ""}
Configs == (Directories \ {""}) \cup {"absent", "empty"}

\* loadVoiceSamplesDirFromConfig: cfg.directory if the file can be read and
\* holds a non-blank string and the directory can be made, else the default
loadVoiceSamplesDirFromConfig(config, mkdirOk) ==
  IF config \in Directories /\ config # "" /\ mkdirOk THEN config ELSE DefaultDir

\* saveVoiceSamplesDirToConfig(dir): the file after the call, and whether it threw
saveVoiceSamplesDirToConfig(config, dir, fault) ==
  CASE fault = "save mkdir" -> [config |-> config, threw |-> TRUE]
    [] fault = "save write" -> [config |-> config, threw |-> TRUE]
    [] fault = "save truncated" -> [config |-> "empty", threw |-> TRUE]
    [] OTHER -> [config |-> dir, threw |-> FALSE]

\* the directory a handler works on: voiceSamplesDir || await load...()
UsedDir(c, mkdirOk) ==
  IF c.voiceSamplesDir # "null" THEN c.voiceSamplesDir
  ELSE loadVoiceSamplesDirFromConfig(c.config, mkdirOk)

InitDir ==
  /\ InitHost
  /\ \E cfg \in Configs :
       calc = [fn |-> "voiceSamplesDir", voiceSamplesDir |-> "null", config |-> cfg,
               last |-> [op |-> "none"]]

\* set-voice-samples-directory: the directory is made and probed with a test
\* file, then remembered, then saved; '' cannot be made
SetVoiceSamplesDirectory(directory, fault) ==
  /\ calc.fn = "voiceSamplesDir"
  /\ directory = "" => fault = "mkdir"
  /\ LET before == UsedDir(calc, TRUE)
         saved == saveVoiceSamplesDirToConfig(calc.config, directory, fault)
     IN IF fault \in {"mkdir", "write test"}
          THEN calc' = [calc EXCEPT !.last = [op |-> "set", directory |-> directory,
                                              before |-> before, success |-> FALSE]]
        ELSE calc' = [calc EXCEPT !.voiceSamplesDir = directory,
                                  !.config = saved.config,
                                  !.last = [op |-> "set", directory |-> directory,
                                            before |-> before, success |-> ~saved.threw]]
  /\ UNCHANGED <<host, ui, os>>

\* a resolve, list, upload or delete call: it loads the directory if none is
\* remembered
UseVoiceSamplesDir(mkdirOk) ==
  /\ calc.fn = "voiceSamplesDir"
  /\ calc' = [calc EXCEPT !.voiceSamplesDir = UsedDir(calc, mkdirOk),
                          !.last = [op |-> "use", directory |-> UsedDir(calc, mkdirOk)]]
  /\ UNCHANGED <<host, ui, os>>

\* the application is quit and launched again: voiceSamplesDir is null
RelaunchHost ==
  /\ calc.fn = "voiceSamplesDir"
  /\ calc' = [calc EXCEPT !.voiceSamplesDir = "null", !.last = [op |-> "none"]]
  /\ UNCHANGED <<host, ui, os>>

NextDir ==
  \/ \E d \in Directories,
        fault \in {"none", "mkdir", "write test", "save mkdir", "save write", "save truncated"} :
       SetVoiceSamplesDirectory(d, fault)
  \/ \E ok \in BOOLEAN : UseVoiceSamplesDir(ok)
  \/ RelaunchHost

SpecDir == InitDir /\ [][NextDir]_vars

\* the books the form submits
UiBookData == {b \in ValidBookData : b.title = TitleSpace}

\* the renderer polling the jobs it submitted, and a relaunch of the application
NextUI ==
  \/ \E b \in UiBookData, ok \in BOOLEAN, time \in 0..MaxTime : UploadBook(b, ok, time)
  \/ UploadDone
  \/ PollSend
  \/ PollReceive
  \/ Relaunch
  \/ TaskStep(1, TinyEnv)

SpecUI == Init /\ [][NextUI]_vars

\* the renderer while status polls keep being answered: the interval of the
\* mounted effect fires again and again, and every answer on its way arrives
SpecUILive == Init /\ [][NextUI]_vars /\ WF_vars(PollSend) /\ WF_vars(PollReceive)

(* ------------------------------- claims ------------------------------- *)

Accepted == {t \in Tasks : tasks[t].pc # "idle"}
Running == {t \in Accepted : tasks[t].pc \notin {"done", "failed"}}
Last(seq) == seq[Len(seq)]

\* the status a write leaves in the record it is applied to by its own task
WriteStatus(t, k) ==
  IF "status" \in DOMAIN writes[t][k] THEN writes[t][k].status ELSE "processing"

\* C1: the progress values a job's task writes while status=processing never
\* go down, whatever the number of chunks.
C1_ProgressNeverDecreases ==
  \A t \in Tasks : \A k \in 1..(Len(writes[t]) - 1) :
    WriteStatus(t, k + 1) = "processing" =>
      writes[t][k].progress <= writes[t][k + 1].progress

\* C2 as stated: whenever a stage of a job has thrown, alignment included, the
\* job ended failed with progress -1 and never completed.
C2_EveryThrowFailsTheJob ==
  \A t \in Tasks : tasks[t].thrown # "none" =>
    /\ tasks[t].pc = "failed"
    /\ Last(writes[t]).status = "failed"
    /\ Last(writes[t]).progress = -1

\* C2 amended: a throw in any stage but transcription ends the task with a last
\* write of status=failed, progress=-1 and no later stage runs; a throw in the
\* transcription stage is caught and the job ends completed with progress 100.
C2_ThrowFailsExceptTranscription ==
  \A t \in Tasks :
    /\ tasks[t].thrown \notin {"none", "transcribing"} =>
         /\ tasks[t].pc = "failed"
         /\ Last(writes[t]).stage = "failed"
         /\ Last(writes[t]).status = "failed"
         /\ Last(writes[t]).progress = -1
    /\ tasks[t].thrown = "transcribing" =>
         /\ tasks[t].pc = "done"
         /\ Last(writes[t]).status = "completed"
         /\ Last(writes[t]).progress = 100
    /\ \A k \in 1..(Len(writes[t]) - 1) : writes[t][k].stage # "failed"

C2_Witness ==
  \E t \in Tasks : tasks[t].thrown = "transcribing" /\ tasks[t].pc = "done"

\* C3: every record of the registry has progress 100 if completed, -1 if
\* failed, 0..99 if processing, and no other progress value.
C3_StatusDeterminesProgress ==
  \A id \in Registered :
    LET r == activeJobs[id] IN
      /\ r.progress \in {-1} \cup 0..100
      /\ r.status = "completed" => r.progress = 100
      /\ r.status = "failed" => r.progress = -1
      /\ r.status = "processing" => r.progress \in 0..99

\* the stages and entry progress values of the specification's state machine
DocumentedStages(withSpeed) ==
  << <<"starting", 0>>, <<"saving_file", 5>>, <<"extracting_text", 10>>,
     <<"generating_audio", 30>>, <<"combining_audio", 58>> >>
  \o (IF withSpeed THEN << <<"adjusting_speed", 60>> >> ELSE << >>)
  \o << <<"transcribing", 60>>, <<"finalizing", 90>>, <<"completed", 100>> >>

\* the stages a task entered, each with the progress written on entering it
RECURSIVE Entries(_)
Entries(ws) ==
  IF ws = << >> THEN << >>
  ELSE IF Len(ws) > 1 /\ ws[Len(ws) - 1].stage = Last(ws).stage
    THEN Entries(SubSeq(ws, 1, Len(ws) - 1))
    ELSE Append(Entries(SubSeq(ws, 1, Len(ws) - 1)), <<Last(ws).stage, Last(ws).progress>>)

\* C4 as stated: a job that completed went through exactly the documented
\* stages, entering each with the documented progress.
C4_DocumentedStageOrder ==
  \A t \in Tasks : tasks[t].pc = "done" =>
    Entries(writes[t]) \in {DocumentedStages(TRUE), DocumentedStages(FALSE)}

\* the progress the code writes on entering a stage
EntryProgress(stage) ==
  CASE stage = "starting" -> 0 [] stage = "saving_file" -> 5
    [] stage \in {"converting_pdf", "converting_txt"} -> 10
    [] stage \in {"converted_pdf", "converted_txt"} -> 30
    [] stage = "generating_audio" -> 30 [] stage = "combining_audio" -> 58
    [] stage = "adjusting_speed" -> 60 [] stage = "transcribing" -> 60
    [] stage = "transcribed" -> 90 [] stage = "finalizing" -> 95
    [] stage = "completed" -> 100 [] stage = "failed" -> -1

\* the stages that may directly follow a stage in the writes of task t
Followers(t, stage) ==
  CASE stage = "starting" -> {"saving_file"}
    [] stage = "saving_file" ->
         {IF isPdf(tasks[t].fileName) THEN "converting_pdf" ELSE "converting_txt", "failed"}
    [] stage = "converting_pdf" -> {"converted_pdf", "failed"}
    [] stage = "converting_txt" -> {"converted_txt", "failed"}
    [] stage \in {"converted_pdf", "converted_txt"} -> {"generating_audio", "failed"}
    [] stage = "generating_audio" -> {"generating_audio", "combining_audio", "failed"}
    [] stage = "combining_audio" ->
         {IF tasks[t].voiceCloning = "undefined" THEN "adjusting_speed" ELSE "transcribing",
          "failed"}
    [] stage = "adjusting_speed" -> {"transcribing", "failed"}
    [] stage = "transcribing" -> {"transcribed", "finalizing"}
    [] stage = "transcribed" -> {"finalizing"}
    [] stage = "finalizing" -> {"completed"}
    [] OTHER -> {}

\* C4 amended: every job writes its stages in the order starting(0),
\* saving_file(5), converting_pdf|converting_txt(10), converted_pdf|converted_txt(30),
\* generating_audio(30, then 30..59 per chunk), combining_audio(58),
\* adjusting_speed(60, exactly when voice cloning is off), transcribing(60),
\* transcribed(90, only when alignment succeeded), finalizing(95),
\* completed(100); failed(-1) follows only saving_file .. adjusting_speed.
C4_StageOrder ==
  \A t \in Accepted :
    /\ writes[t][1].stage = "starting"
    /\ \A k \in 1..Len(writes[t]) :
         LET w == writes[t][k] IN
           /\ IF w.stage = "generating_audio"
                THEN w.progress \in 30..59
                ELSE w.progress = EntryProgress(w.stage)
           /\ k > 1 /\ w.stage = "generating_audio" /\ writes[t][k - 1].stage # w.stage
                => w.progress = 30
           /\ k < Len(writes[t]) => writes[t][k + 1].stage \in Followers(t, w.stage)
    /\ tasks[t].pc = "done" <=> Last(writes[t]).stage = "completed"
    /\ tasks[t].pc = "failed" <=> Last(writes[t]).stage = "failed"

C4_Witness ==
  \E t \in Tasks :
    /\ tasks[t].pc = "done"
    /\ tasks[t].totalChunks > 1
    /\ \E k \in 1..Len(writes[t]) : writes[t][k].stage = "adjusting_speed"
    /\ \E k \in 1..Len(writes[t]) : writes[t][k].stage = "transcribed"

\* C5: no two accepted submissions have the same job id.
C5_JobIdsUnique ==
  \A t, u \in Accepted : t # u => tasks[t].jobId # tasks[u].jobId

\* C6: no two running jobs have the same output directory.
C6_OutputDirsDisjoint ==
  \A t, u \in Running : t # u => tasks[t].dir # tasks[u].dir

\* a submission the handler has to reject
Rejectable(b) ==
  \/ b.name = NoString \/ ~b.pdfData \/ b.title = NoString \/ ~b.author
  \/ b.bookPath = NoString
  \/ b.name = DocName

C8_RecordStaysQueryable ==
  /\ [](reply.op = "submit" /\ reply.success => reply.job_id \in Registered)
  /\ [](reply.op = "status" /\ reply.jobId \in Registered =>
          reply.success /\ reply.result = activeJobs[reply.jobId])
  /\ [][/\ \A id \in Registered : id \in DOMAIN activeJobs'
        /\ reply'.op = "status" => activeJobs' = activeJobs]_vars

C8_Witness ==
  /\ reply.op = "status" /\ reply.success
  /\ reply.result.status = "failed"
  /\ \E t \in Running : tasks[t].jobId # reply.jobId

\* the job ids accepted since the host was launched
AcceptedIds == {tasks[t].jobId : t \in Accepted}

Receiving == inflight # << >> /\ inflight' = Tail(inflight) /\ launched' = launched

\* C10 as stated: 'Job not found' is let pass three consecutive times, and the
\* answer after that stops the polling and sets the error banner.
C10_GiveUpSurfacesError ==
  [][Receiving /\ ~Head(inflight).success =>
       IF jobNotFoundAttempts < NotFoundTolerance
         THEN jobNotFoundAttempts' = jobNotFoundAttempts + 1 /\ processing' = processing
         ELSE ~Polling' /\ error' # NoError]_vars

\* C10, amended: 'Job not found' is let pass three consecutive times, the
\* polling state and the banner untouched; a successful answer restarts the
\* count; the fourth consecutive 'Job not found' resets the processing state,
\* which stops the polling, and leaves the error banner as it was.
C10_BoundedSilentRetry ==
  /\ [](jobNotFoundAttempts \in 0..NotFoundTolerance)
  /\ [][Receiving /\ ~Head(inflight).success =>
          IF jobNotFoundAttempts < NotFoundTolerance
            THEN /\ jobNotFoundAttempts' = jobNotFoundAttempts + 1
                 /\ processing' = processing
                 /\ error' = error
            ELSE /\ jobNotFoundAttempts' = jobNotFoundAttempts
                 /\ processing' = defaultProcessingState
                 /\ error' = error]_vars
  /\ [][Receiving /\ Head(inflight).success => jobNotFoundAttempts' = 0]_vars

C10_Witness ==
  /\ launched
  /\ jobNotFoundAttempts = NotFoundTolerance
  /\ processing = defaultProcessingState
  /\ error = NoError
  /\ cleared # {}

\* C11: a job has at most one child process alive, and it spawns a child only
\* when it has none alive; children of different jobs may be alive together.
C11_OneChildPerJob ==
  /\ [](\A t \in Tasks : Cardinality(children[t]) <= 1)
  /\ [][\A t \in Tasks : spawns'[t] # spawns[t] /\ tasks[t].pc # "idle" => children[t] = {}]_vars

C11_Witness ==
  \E t, u \in Tasks :
    /\ t # u
    /\ <<"tts_cli", 1>> \in children[t]
    /\ children[u] # {}

IsTts(exe) == exe[1] = "tts_cli"
\* the synthesis calls of task t, in order
TtsSpawns(t) == SelectSeq(spawns[t], IsTts)
Combined(t) == tasks[t].pc \in {"ffmpeg", "cleanup", "whisperx_cli", "done"}

\* C12: the synthesis calls of a job are the chunks 0, 1, 2, ... in order, one
\* call each; no executable is spawned twice and a failed job spawns nothing
\* more; once the chunks are combined there was one call per chunk, each left
\* its fragment, and combineWavs got the fragments in chunk order.
C12_OneSynthesisPerChunk ==
  /\ [](\A t \in Accepted :
         /\ \A k \in DOMAIN TtsSpawns(t) : TtsSpawns(t)[k] = <<"tts_cli", k - 1>>
         /\ \A k, l \in DOMAIN spawns[t] : spawns[t][k] = spawns[t][l] => k = l
         /\ Len(TtsSpawns(t)) <= tasks[t].totalChunks
         /\ tasks[t].pc = "combining_audio" =>
              {chunkOut(t, k) : k \in 0..(tasks[t].totalChunks - 1)} \subseteq files
         /\ Combined(t) =>
              /\ Len(TtsSpawns(t)) = tasks[t].totalChunks
              /\ locals[t].combined =
                   [k \in 1..tasks[t].totalChunks |-> chunkOut(t, k - 1)])
  /\ [][\A t \in Tasks : tasks[t].pc = "failed" => spawns'[t] = spawns[t]]_vars

C12_Witness ==
  \E t \in Accepted :
    /\ tasks[t].pc = "done"
    /\ tasks[t].totalChunks >= 3
    /\ Len(TtsSpawns(t)) = tasks[t].totalChunks

\* the record of task t has a final status
Ended(t) ==
  /\ tasks[t].pc # "idle"
  /\ activeJobs[tasks[t].jobId].status \in {"completed", "failed"}

\* C13: when the task is always resumed (every child exits or fails to spawn),
\* every accepted job eventually has status completed or failed.
C13_EveryJobEnds ==
  \A t \in Tasks : (tasks[t].pc # "idle") ~> Ended(t)

C13_Witness ==
  \E t \in Accepted :
    /\ Ended(t)
    /\ tasks[t].thrown = "tts_cli"
    /\ tasks[t].i = 1

\* C14: the text file of a chunk exists only while its main_cli runs and the
\* scratch output of the speed adjustment only while its ffmpeg runs.
C14_TempFilesRemoved ==
  \A t \in Accepted :
    /\ tasks[t].pc # "tts_cli" => locals[t].tmpTextPath \notin files
    /\ tasks[t].pc # "ffmpeg" => locals[t].tempPath \notin files

\* the message of the failed job of task t, when a child's exit failed it
ExitFailed(t) ==
  /\ tasks[t].pc = "failed"
  /\ tasks[t].thrown \in {"pdf_cli", "tts_cli", "ffmpeg"}
  /\ Len(activeJobs[tasks[t].jobId].message) = 4
FailureMessage(t) == activeJobs[tasks[t].jobId].message
KnownCrash == "encountered an access violation (0xC0000005). Try shorter text and ensure sufficient memory"

\* C16: the message of a job that failed because a child exited non-zero
\* contains no benign diagnostic line.
C16_FailureMessagesSanitized ==
  \A t \in Accepted : ExitFailed(t) => NoiseChar \notin Range(FailureMessage(t)[4])

C18_FragmentsDeletedOnlyOnSuccess ==
  \A t \in Accepted :
    /\ tasks[t].pc = "done" => Range(locals[t].tempChunkFiles) \cap files = {}
    /\ tasks[t].pc = "failed" /\ tasks[t].thrown \in {"tts_chunk", "tts_cli", "combining_audio"} =>
         {chunkOut(t, k) : k \in 0..(tasks[t].i - 1)} \subseteq files

\* C15: the sanitized output of a failed process whose output is one line is
\* that line, whether or not it matches a benign pattern.
C15_OnlyLineIsKept ==
  calc.fn = "sanitizeCliOutput" /\ calc.done /\ Len(SplitLines(calc.raw)) = 1 =>
    calc.out = trim(calc.raw)

\* the sentences of a text: the pieces the chunker splits it into, without the
\* white space around them, the empty ones left out
NotEmpty(piece) == piece # << >>
Sentences(text) ==
  SelectSeq([k \in DOMAIN SplitSentences(text) |-> trim(SplitSentences(text)[k])], NotEmpty)

\* chunks.join(' ')
RECURSIVE JoinChunks(_)
JoinChunks(chunks) ==
  IF chunks = << >> THEN << >>
  ELSE IF Len(chunks) = 1 THEN chunks[1]
  ELSE chunks[1] \o <<" ">> \o JoinChunks(Tail(chunks))

RECURSIVE Flatten(_)
Flatten(seqs) == IF seqs = << >> THEN << >> ELSE Head(seqs) \o Flatten(Tail(seqs))

Chunked == calc.fn = "splitTextIntoChunks" /\ calc.done

\* C19: for a text with terminal punctuation, the chunks joined with single
\* spaces have the sentences of the text, all of them, once each and in order.
C19_ChunksKeepTheSentences ==
  Chunked /\ Range(calc.text) \cap Terminal # {} =>
    Sentences(JoinChunks(calc.out)) = Sentences(calc.text)

C19_Witness ==
  /\ Chunked
  /\ Len(calc.out) = 3
  /\ Len(calc.out[2]) > calc.maxChars
  /\ Len(Sentences(calc.text)) = 3

\* C20: a chunk is longer than maxChars only if it is one sentence that is,
\* and every chunk is made of whole sentences of the text: the sentences of
\* the chunks, in order, are the sentences of the text.
C20_ChunksWithinBound ==
  Chunked =>
    /\ \A k \in DOMAIN calc.out :
         \/ Len(calc.out[k]) <= calc.maxChars
         \/ Len(SplitSentences(calc.out[k])) = 1
    /\ Flatten([k \in DOMAIN calc.out |-> Sentences(calc.out[k])]) = Sentences(calc.text)

C20_Witness ==
  /\ Chunked
  /\ \E k \in DOMAIN calc.out : Len(Sentences(calc.out[k])) = 2
  /\ \E k \in DOMAIN calc.out : Len(calc.out[k]) > calc.maxChars

\* C21 as stated: the chunker returns a non-empty list for a non-empty text,
\* and for a text without terminal punctuation the list is the text itself.
C21_OneChunkIsTheInput ==
  Chunked /\ calc.text # << >> =>
    /\ calc.out # << >>
    /\ Range(calc.text) \cap Terminal = {} => calc.out = <<calc.text>>

\* C21: the chunker returns a non-empty list, and for a text without
\* terminal punctuation the list is one chunk: the text without the white
\* space around it, or the text itself when it is white space only.
C21_OneChunkIsTheTrimmedInput ==
  Chunked =>
    /\ calc.out # << >>
    /\ Range(calc.text) \cap Terminal = {} =>
         calc.out = <<IF trim(calc.text) # << >> THEN trim(calc.text) ELSE calc.text>>

C21_Witness ==
  /\ Chunked
  /\ Range(calc.text) \cap Terminal = {}
  /\ Len(calc.text) > calc.maxChars
  /\ Head(calc.text) = " "
  /\ calc.out = <<trim(calc.text)>>
  /\ Len(trim(calc.text)) > calc.maxChars

\* the white space the text starts with: it is in `current` while the first
\* chunk is collected, and current.trim() removes it from the chunk
LeadingSpace(text) == Len(text) - Len(trimStart(text))

\* C29 as stated: of two consecutive chunks, the earlier one, a space and the
\* first sentence of the later one are together longer than maxChars.
C29_GreedyOnChunks ==
  Chunked =>
    \A k \in 1..(Len(calc.out) - 1) :
      Len(calc.out[k]) + 1 + Len(Head(SplitSentences(calc.out[k + 1]))) > calc.maxChars

\* the number of sentences in the first k chunks
SentencesUpTo(k) == Len(Flatten([m \in 1..k |-> Sentences(calc.out[m])]))

\* C29: of two consecutive chunks, the earlier one as it was collected (the
\* first chunk with the white space the text starts with), a space and the
\* next sentence as the split produced it (the last sentence of the text with
\* the white space the text ends with) are together longer than maxChars.
C29_GreedyOnCurrent ==
  Chunked =>
    \A k \in 1..(Len(calc.out) - 1) :
      (IF k = 1 THEN LeadingSpace(calc.text) ELSE 0) + Len(calc.out[k]) + 1
        + Len(SplitSentences(calc.text)[SentencesUpTo(k) + 1]) > calc.maxChars

C29_Witness ==
  /\ Chunked
  /\ Len(calc.out) = 2
  /\ Head(calc.text) = " "
  /\ Len(Sentences(calc.out[1])) = 2
  /\ Len(calc.out[1]) + 1 + Len(calc.out[2]) <= calc.maxChars + 1

\* the updates the chunk loop wrote, one before each synthesis
IsChunkWrite(w) ==
  "stage" \in DOMAIN w /\ w.stage = "generating_audio" /\ Len(w.message) = 3
ChunkWrites(t) == SelectSeq(writes[t], IsChunkWrite)

\* C30: the update written before the synthesis of chunk i (the i+1-th update
\* of the loop) has progress 30 + floor(30 * i / n); the values start at 30,
\* never go down and stay within 30..60.
C30_ChunkProgressIsLinear ==
  \A t \in Tasks :
    LET cw == ChunkWrites(t)
        n == tasks[t].totalChunks
    IN \A j \in DOMAIN cw :
         /\ cw[j].progress = 30 + ((30 * (j - 1)) \div n)
         /\ cw[j].progress \in 30..60
         /\ j = 1 => cw[j].progress = 30
         /\ j > 1 => cw[j - 1].progress <= cw[j].progress

C30_Witness ==
  \E t \in Tasks :
    /\ tasks[t].totalChunks = 7
    /\ Len(ChunkWrites(t)) = 7
    /\ ChunkWrites(t)[7].progress = 55
    /\ ChunkWrites(t)[2].progress = 34

\* a finished splice, its fragments and what was put into them
Spliced == calc.fn = "combineWavs" /\ calc.done
AllPlain == \A k \in DOMAIN calc.fragments : calc.fragments[k].kind = "plain"
SameDesc == \A k \in DOMAIN calc.fragments : calc.fragments[k].desc = calc.fragments[1].desc
Payloads == concat([k \in DOMAIN calc.fragments |-> calc.fragments[k].payload])

\* C22: for fragments of one descriptor, every chunk of which lies within its
\* file, the output is written, its bytes after the 44 of the header are the
\* payloads of the fragments in input order, and its payload size field is
\* the sum of their lengths.
C22_PayloadIsConcatenated ==
  Spliced /\ AllPlain /\ SameDesc =>
    /\ calc.out.wrote
    /\ subarray(calc.out.file, 44, Len(calc.out.file)) = Payloads
    /\ readUInt32LE(calc.out.file, 40) = Big(Len(Payloads))

C22_Witness ==
  /\ Spliced /\ AllPlain /\ SameDesc
  /\ Len(calc.fragments) = 3
  /\ Len(calc.fragments[1].payload) = 3
  /\ Len(calc.fragments[2].bytes) = 58
  /\ Len(calc.fragments[3].payload) = 1
  /\ Len(calc.out.file) = 44 + 6

\* C23: if the descriptor of a fragment differs from the first fragment's,
\* whatever its position, the splice throws and writes nothing; the error is
\* the format mismatch when every chunk of every fragment lies within its file.
C23_MismatchWritesNothing ==
  Spliced /\ ~SameDesc =>
    /\ ~calc.out.wrote
    /\ calc.out.error # << >>
    /\ AllPlain => calc.out.error = <<"WAV format mismatch between chunks">>

C23_Witness ==
  /\ Spliced /\ AllPlain
  /\ Len(calc.fragments) = 3
  /\ calc.fragments[2].desc = calc.fragments[1].desc
  /\ calc.fragments[3].desc.bitsPerSample # calc.fragments[1].desc.bitsPerSample
  /\ calc.out = Thrown("WAV format mismatch between chunks")

\* C24: the file a splice wrote parses, with the parser of the splice, to the
\* descriptor of the fragments and to a payload length that is the sum of
\* theirs, and the splice of that file alone writes the same file again.
C24_SpliceThenParse ==
  Spliced /\ AllPlain /\ SameDesc =>
    LET p == parseWav(calc.out.file)
    IN /\ p.error = << >>
       /\ Descriptor(p) = calc.fragments[1].desc
       /\ p.dataLength = Big(Len(Payloads))
       /\ combineWavs(<<calc.out.file>>) = calc.out

C24_Witness ==
  /\ Spliced /\ AllPlain /\ SameDesc
  /\ Len(calc.fragments) = 3
  /\ calc.fragments[1].desc.channels = 2
  /\ Len(Payloads) = 3
  /\ combineWavs(<<calc.out.file>>).wrote

\* the sum of the sizes the payload chunks of the fragments declare
RECURSIVE DeclaredTotal(_)
DeclaredTotal(frags) ==
  IF frags = << >> THEN Big(0) ELSE Plus(Head(frags).declared, DeclaredTotal(Tail(frags)))

\* fragments the parser takes: every chunk within the file, or a payload
\* chunk that declares more bytes than the file holds
Taken ==
  /\ SameDesc
  /\ \A k \in DOMAIN calc.fragments : calc.fragments[k].kind \in {"plain", "past the end"}

\* the three size fields of the header of the output
SizeFields(T) ==
  /\ calc.out.wrote
  /\ readUInt32LE(calc.out.file, 4) = Plus(Big(4 + (8 + 16) + 8), T)
  /\ readUInt32LE(calc.out.file, 16) = Big(16)
  /\ readUInt32LE(calc.out.file, 40) = T

\* C25 as stated: for every total T that fits 32 bits the header declares the
\* container size 4 + (8 + 16) + (8 + T), the format chunk size 16 and the
\* payload size T.
C25_SizesForEveryTotal ==
  Spliced /\ Taken /\ DeclaredTotal(calc.fragments).hi <= 65535 =>
    SizeFields(DeclaredTotal(calc.fragments))

\* C25: the header declares these sizes for every total T such that the
\* container size 36 + T fits 32 bits; for a larger total the splice throws
\* a range error and writes nothing.
C25_SizesWhileContainerFits ==
  Spliced /\ Taken =>
    LET T == DeclaredTotal(calc.fragments)
    IN IF Plus(Big(36), T).hi <= 65535 THEN SizeFields(T)
       ELSE calc.out = Thrown("ERR_OUT_OF_RANGE: value")

C25_Witness ==
  /\ Spliced /\ Taken
  /\ Len(calc.fragments) = 2
  /\ DeclaredTotal(calc.fragments) = [hi |-> 65535, lo |-> 65499]
  /\ readUInt32LE(calc.out.file, 4) = [hi |-> 65535, lo |-> 65535]
  /\ readUInt32LE(calc.out.file, 40) = [hi |-> 65535, lo |-> 65499]

\* C26: a splice with a damaged fragment (a wrong marker, no format or no
\* payload chunk, a chunk that runs past the end of the file, a format chunk
\* too short for its fields) throws and writes nothing.
C26_DamagedFragmentIsRejected ==
  Spliced /\ ~AllPlain => calc.out.error # << >> /\ ~calc.out.wrote

\* a finished lookup, and the first entry of its directory that satisfies a test
Resolved == calc.fn = "resolve" /\ calc.done
FirstEntry(Test(_)) ==
  LET hits == {k \in DOMAIN calc.entries : Test(calc.entries[k])}
  IN IF hits = {} THEN NotFound
     ELSE calc.entries[CHOOSE k \in hits : \A m \in hits : k <= m].name

\* C27 as stated: the lookup returns the first entry that is a file whose name
\* without extension equals sampleId or starts with sampleId + '_', and
\* NotFound when there is none.
MatchesByBaseName(e) ==
  /\ e.isFile
  /\ \/ parseName(e.name) = calc.sampleId
     \/ startsWith(parseName(e.name), calc.sampleId \o <<"_">>)
C27_FirstMatchByBaseName == Resolved => calc.out = FirstEntry(MatchesByBaseName)

\* C27: the lookup returns the first entry that is a file whose name without
\* extension equals sampleId or whose name, extension included, starts with
\* sampleId + '_', and NotFound when there is none; in the name returned,
\* sampleId is followed by nothing, by '_' or by the dot of the extension.
MatchesByName(e) ==
  /\ e.isFile
  /\ \/ parseName(e.name) = calc.sampleId
     \/ startsWith(e.name, calc.sampleId \o <<"_">>)
C27_FirstMatchByName ==
  Resolved =>
    /\ calc.out = FirstEntry(MatchesByName)
    /\ calc.out # NotFound =>
         /\ startsWith(calc.out, calc.sampleId)
         /\ Len(calc.out) > Len(calc.sampleId) =>
              calc.out[Len(calc.sampleId) + 1] \in {"_", "."}

C27_Witness ==
  /\ Resolved
  /\ Len(calc.entries) = 2
  /\ ~calc.entries[1].isFile /\ parseName(calc.entries[1].name) = calc.sampleId
  /\ calc.out = calc.entries[2].name
  /\ "." \in Range(calc.sampleId)
  /\ ~MatchesByBaseName(calc.entries[2])

\* C28: a job with voice cloning enabled whose selected sample was not found
\* passes no prompt to any of its synthesis calls, one entry of prompts per
\* call, and does not fail with a message about the sample; a job passes the
\* prompt it resolved to every call.
C28_NoSampleNoPrompt ==
  \A t \in Tasks :
    /\ Len(locals[t].prompts) = Len(TtsSpawns(t))
    /\ \A k \in DOMAIN locals[t].prompts : locals[t].prompts[k] = locals[t].promptPath
    /\ tasks[t].voiceCloning = "enabled" /\ tasks[t].pc = "failed" =>
         Last(writes[t]).message # <<"Voice sample not found">>

C28_Witness ==
  \E t \in Tasks :
    /\ tasks[t].voiceCloning = "enabled"
    /\ locals[t].promptPath = NotFound
    /\ tasks[t].pc = "done"
    /\ Len(locals[t].prompts) = 2
    /\ Last(writes[t]).status = "completed"

\* C31 (as the claim states it): the tempo given to ffmpeg is 0.5 + 0.5 s for
\* every submitted speed s, clamped to [0, 1] first, s = 0 included; only an
\* absent or non-finite speed is replaced by the default 0.7.
C31_TempoIsLinearInSpeed ==
  calc.fn = "speechSpeed" /\ calc.pc = "adjusted" =>
    calc.atempo = IF calc.bookData.kind = "number"
                    THEN IF calc.bookData.n < 0 THEN SliderMax
                         ELSE IF calc.bookData.n > SliderMax THEN 2 * SliderMax
                         ELSE SliderMax + calc.bookData.n
                  ELSE SliderMax + DefaultSpeechSpeed

\* C32 (as the claim states it): a job that reached transcribing wrote
\* adjusting_speed exactly if its synthesis calls carried no voice prompt, a
\* job whose sample was not found included; adjusting_speed directly follows
\* combining_audio and is followed by transcribing or, on failure, by failed.
C32_SpeedAdjustedIffNoPrompt ==
  \A t \in Tasks :
    /\ (\E k \in DOMAIN writes[t] : writes[t][k].stage = "transcribing") =>
         ((\E k \in DOMAIN writes[t] : writes[t][k].stage = "adjusting_speed")
            <=> locals[t].promptPath = NotFound)
    /\ \A k \in DOMAIN writes[t] :
         writes[t][k].stage = "adjusting_speed" =>
           /\ k > 1 /\ writes[t][k - 1].stage = "combining_audio"
           /\ k < Len(writes[t]) => writes[t][k + 1].stage \in {"transcribing", "failed"}

\* C33: once a record of the registry has status completed or failed, no
\* step of any task or submission changes any of its fields.
C33_TerminalIsAbsorbing ==
  [][\A id \in Registered :
       activeJobs[id].status \in {"completed", "failed"} => activeJobs'[id] = activeJobs[id]]_vars

\* C34: whenever the processing store says uploading, it holds a job id.
C34_UploadingHasJobId ==
  processing.uploading => processing.currentJobId # NoJob

Idle == processing.currentJobId = NoJob /\ ~processing.uploading

TrackedIsTerminal ==
  /\ Polling
  /\ processing.currentJobId \in Registered
  /\ activeJobs[processing.currentJobId].status \in {"completed", "failed"}

\* once the tracked job has a terminal record the store becomes idle
TerminalLeadsToIdle == TrackedIsTerminal ~> Idle

\* C36: once the tracked job has a terminal record the store eventually is
\* idle, and an idle store stays idle until startProcessing runs (the step of
\* uploadBook that receives the answer to an accepted submission).
C36_TerminalThenIdle ==
  /\ TerminalLeadsToIdle
  /\ [][Idle /\ ~Idle' => pendingUpload # NoReply /\ pendingUpload.success
                            /\ pendingUpload' = NoReply]_vars

\* C37: two jobs whose main_cli runs at the same time have different text
\* files in the temp directory, and two jobs whose ffmpeg runs at the same time
\* have different scratch outputs there.
C37_TempPathsDistinct ==
  \A t, u \in Accepted :
    t # u =>
      /\ tasks[t].pc = "tts_cli" /\ tasks[u].pc = "tts_cli" =>
           locals[t].tmpTextPath # locals[u].tmpTextPath
      /\ tasks[t].pc = "ffmpeg" /\ tasks[u].pc = "ffmpeg" =>
           locals[t].tempPath # locals[u].tempPath

\* C38 (as the claim states it): after set-voice-samples-directory reported
\* failure, later calls use the directory they would have used before the call;
\* after it reported success, voiceSamplesDir and the configuration file both
\* hold the new path.
C38_SetIsAllOrNothing ==
  calc.fn = "voiceSamplesDir" /\ calc.last.op = "set" =>
    IF calc.last.success
      THEN calc.voiceSamplesDir = calc.last.directory /\ calc.config = calc.last.directory
    ELSE UsedDir(calc, TRUE) = calc.last.before

\* C39: whenever the splice writes its output, the payload size field of the
\* header is the number of bytes that follow the 44 bytes of the header.
C39_DeclaredIsWritten ==
  Spliced /\ calc.out.wrote =>
    readUInt32LE(calc.out.file, 40) = Big(Len(calc.out.file) - 44)

====
